---------------------------- MODULE Spec2Model ----------------------------
(***************************************************************************)
(* A model of the COMEX metals forecasting engine (src/forecast.py): the   *)
(* composite combiner, the per-commodity batch loop of main(), and the     *)
(* forecast-history tracker update_forecast_history() with its three       *)
(* PostgreSQL tables and the local JSON history.                           *)
(*                                                                         *)
(* Units.  A signal score and the composite score are kept in tenths       *)
(* (the code rounds them to one decimal): 500 is the neutral 50.0.         *)
(* Weights are in hundredths, so a weighted sum is in thousandths.         *)
(* Prices are in cents (run_forecast_for_metal rounds to 2 decimals).      *)
(* Dates are day numbers.  None stands for Python's None / a missing key,  *)
(* and in a data series for NaN.                                           *)
(*                                                                         *)
(* The four signal calculators work on data series.  What the code gets    *)
(* from an exponential average, a standard deviation or the ARIMA library  *)
(* is not computed here: it enters as an input that ranges over sample     *)
(* values (macd_bullish, bb_position, the inventory z quotient, the        *)
(* library's outcome).  Sums, ratios and comparisons of series values are  *)
(* computed exactly; a quotient is carried to three decimals.              *)
(***************************************************************************)
EXTENDS Integers, Sequences, FiniteSets, TLC

\* Optional values: None is the empty tuple, a present value v is <<v>>
None == <<>>

Some(v) == <<v>>

(***************************************************************************)
(* Numeric helpers                                                         *)
(***************************************************************************)
Abs(x) == IF x < 0 THEN 0 - x ELSE x

Max2(a, b) == IF a >= b THEN a ELSE b

Min2(a, b) == IF a <= b THEN a ELSE b

\* Python's round() at zero decimals: nearest integer to n/d, exact halves
\* to the even neighbour (d > 0).
RoundHalfEven(n, d) ==
    LET q == n \div d
        r == n % d
    IN  IF 2 * r < d THEN q
        ELSE IF 2 * r > d THEN q + 1
        ELSE IF q % 2 = 0 THEN q ELSE q + 1

\* round(x, 1) of a binary float x whose exact value is n thousandths: the
\* nearest tenth.  When n lies exactly halfway between two tenths the float
\* that carries it is a hair above or below the half, so either neighbour
\* can come out; tieUp is that representation error.
Round1(n, tieUp) ==
    LET q == n \div 100
        r == n % 100
    IN  IF r < 50 THEN q
        ELSE IF r > 50 THEN q + 1
        ELSE IF tieUp THEN q + 1 ELSE q

\* PostgreSQL's cast to DECIMAL(10,4) of change / price_then * 100: the
\* quotient in ten-thousandths of a percent, halves away from zero.
RoundDivAway(n, d) ==
    IF n >= 0 THEN (2 * n + d) \div (2 * d)
    ELSE 0 - ((2 * (0 - n) + d) \div (2 * d))

\* The neutral score 50, in tenths
NeutralScore == 500

\* max(0, min(100, x)), x in thousandths
Clamp100(n) == Max2(0, Min2(100000, n))

(***************************************************************************)
(* Data series                                                             *)
(***************************************************************************)
\* Series.dropna(), as the sequence of the values
DropNa(series) ==
    LET kept == SelectSeq(series, LAMBDA x : x # None)
    IN  [i \in 1..Len(kept) |-> kept[i][1]]

RECURSIVE SumFrom(_, _)
\* s[i] + ... + s[Len(s)]
SumFrom(s, i) == IF i > Len(s) THEN 0 ELSE s[i] + SumFrom(s, i + 1)

\* The sum of the last n values: n times the latest value of rolling(n).mean()
SumLast(s, n) == SumFrom(s, Len(s) - n + 1)

\* s.iloc[-1]
Latest(s) == s[Len(s)]

(***************************************************************************)
(* 1. PRICE TREND ANALYSIS                                                 *)
(***************************************************************************)
MinTrendPrices == 20

RsiPeriod == 14

\* "Insufficient price data": score 50 and no indicators
TrendInsufficient ==
    [score |-> Some(NeutralScore), details |-> "Insufficient price data", indicators |-> None]

\* SMA crossover score: +1 or -1 for each of sma5 > sma20, latest > sma50,
\* sma20 > sma50 (the means compared as sums, cross-multiplied)
MaScore(s) ==
    LET n50 == Min2(50, Len(s))
        sum5 == SumLast(s, 5)
        sum20 == SumLast(s, 20)
        sum50 == SumLast(s, n50)
    IN  (IF 4 * sum5 > sum20 THEN 1 ELSE -1)
        + (IF Latest(s) * n50 > sum50 THEN 1 ELSE -1)
        + (IF sum20 * n50 > sum50 * 20 THEN 1 ELSE -1)

\* 14 times the latest rolling(14).mean() of the up-moves
GainSum(s) ==
    LET up(i) == IF s[i] > s[i - 1] THEN s[i] - s[i - 1] ELSE 0
        RECURSIVE Total(_)
        Total(i) == IF i > Len(s) THEN 0 ELSE up(i) + Total(i + 1)
    IN  Total(Len(s) - RsiPeriod + 1)

\* 14 times the latest rolling(14).mean() of the down-moves
LossSum(s) ==
    LET down(i) == IF s[i] < s[i - 1] THEN s[i - 1] - s[i] ELSE 0
        RECURSIVE Total(_)
        Total(i) == IF i > Len(s) THEN 0 ELSE down(i) + Total(i + 1)
    IN  Total(Len(s) - RsiPeriod + 1)

\* latest_rsi as the fraction num/den: rs = gain / loss.replace(0, nan),
\* rsi = 100 - 100 / (1 + rs), and 50.0 where that is NaN
LatestRsi(s) ==
    IF LossSum(s) = 0 THEN [num |-> 50, den |-> 1]
    ELSE [num |-> 100 * GainSum(s), den |-> GainSum(s) + LossSum(s)]

\* rsi_score, as a fraction
RsiScore(rsi) ==
    IF rsi.num > 70 * rsi.den THEN [num |-> 70, den |-> 1]
    ELSE IF rsi.num < 30 * rsi.den THEN [num |-> 30, den |-> 1]
    ELSE rsi

\* ma_norm*0.30 + rsi_score*0.25 + macd_score*0.25 + bb_score*0.20 in
\* thousandths; bb_position comes in thousandths
TrendWeighted(s, macd_bullish, bb_position) ==
    LET ma_norm == 10 * MaScore(s) + 50
        rsi_score == RsiScore(LatestRsi(s))
        macd_score == IF macd_bullish THEN 65 ELSE 35
    IN  300 * ma_norm + RoundDivAway(250 * rsi_score.num, rsi_score.den)
        + 250 * macd_score + 20 * bb_position

\* prices is the frame's settle column; macd_bullish and bb_position are
\* what the exponential averages and the 20-period deviation give
compute_trend_signals(settle, macd_bullish, bb_position, tieUp) ==
    IF Len(settle) = 0 THEN TrendInsufficient
    ELSE LET s == DropNa(settle)
         IN  IF Len(s) < MinTrendPrices THEN TrendInsufficient
             ELSE [score |-> Some(Round1(Clamp100(TrendWeighted(s, macd_bullish, bb_position)),
                                         tieUp)),
                   details |-> "SMA, MACD, RSI, ROC",
                   indicators |->
                       Some([rsi |-> RoundHalfEven(10 * LatestRsi(s).num, LatestRsi(s).den),
                             macd_bullish |-> macd_bullish,
                             bollinger_position |-> bb_position])]

(***************************************************************************)
(* 2. PHYSICAL MARKET SIGNALS                                              *)
(* A frame is the record of its columns, all of one length.  Quantities    *)
(* are whole numbers, a paper/physical ratio is in hundredths, a sub-score *)
(* in thousandths.                                                         *)
(***************************************************************************)
\* len(frame)
Rows(frame, column) == Len(frame[column])

\* z_inv clamped to [-5, 5], in hundredths; quotient is
\* (latest_change - latest_mean) / latest_std, or 0 when latest_std <= 0
ZInv(quotient) == Max2(-500, Min2(500, quotient))

\* inv_score = 50 + (-z_inv * 15), clamped
InvScore(z_inv) == Clamp100(50000 - 150 * z_inv)

InventoryDrawdown(inventory, quotient) ==
    IF Rows(inventory, "registered") >= 10 /\ Len(DropNa(inventory.registered)) >= 10
    THEN Some(ZInv(quotient))
    ELSE None

\* del_score = 50 + (accel_ratio - 1.0) * 30, clamped; accel_ratio is
\* latest_issued / latest_avg when latest_avg > 0 and 1.0 otherwise
DelScore(issued) ==
    LET n == Min2(20, Len(issued))
        total == SumLast(issued, n)
    IN  IF total > 0
        THEN Clamp100(50000 + RoundDivAway(30000 * (Latest(issued) * n - total), total))
        ELSE Clamp100(50000)

DeliveryAcceleration(delivery) ==
    IF Rows(delivery, "daily_issued") >= 5 /\ Len(DropNa(delivery.daily_issued)) >= 5
    THEN Some(DelScore(DropNa(delivery.daily_issued)))
    ELSE None

\* level_score = min(100, latest_pp * 8)
LevelScore(latest_pp) == Min2(100000, 80 * latest_pp)

\* trend_score = 50 + pp_roc * 5, pp_roc the percent change from ppr.iloc[-5]
\* when that is positive and 0 otherwise
PpTrendScore(ppr) ==
    LET latest_pp == Latest(ppr)
        pp_5d_ago == ppr[Len(ppr) - 4]
    IN  IF pp_5d_ago > 0
        THEN 50000 + RoundDivAway(500000 * (latest_pp - pp_5d_ago), pp_5d_ago)
        ELSE 50000

\* squeeze_score = level_score * 0.6 + max(0, min(100, trend_score)) * 0.4
SqueezeScore(ppr) ==
    RoundDivAway(6 * LevelScore(Latest(ppr)) + 4 * Clamp100(PpTrendScore(ppr)), 10)

PpSqueeze(pp) ==
    IF Rows(pp, "pp_ratio") >= 5 /\ Len(DropNa(pp.pp_ratio)) >= 5
    THEN Some(SqueezeScore(DropNa(pp.pp_ratio)))
    ELSE None

\* cov_score = max(0, min(100, 100 - coverage_days * 0.5)), coverage_days =
\* latest_reg / (avg_daily * contract_size)
CoverageErosion(inventory, delivery, contract_size) ==
    LET reg == DropNa(inventory.registered)
        issued == DropNa(delivery.daily_issued)
        n == Min2(20, Len(issued))
    IN  IF /\ Rows(inventory, "registered") > 0
           /\ Rows(delivery, "daily_issued") > 0
           /\ Len(reg) >= 2
           /\ Len(issued) >= 5
           /\ SumLast(issued, n) > 0
           /\ Latest(reg) > 0
        THEN Some(Clamp100(100000 - RoundDivAway(500 * Latest(reg) * n,
                                                 SumLast(issued, n) * contract_size)))
        ELSE None

\* s.diff(5).iloc[-1] if len(s) >= 6 else 0
Change5(s) == IF Len(s) >= 6 THEN Latest(s) - s[Len(s) - 5] ELSE 0

EligibleFlow(inventory) ==
    LET reg == DropNa(inventory.registered)
        elig == DropNa(inventory.eligible)
    IN  IF Rows(inventory, "registered") > 0 /\ Len(reg) >= 5 /\ Len(elig) >= 5
        THEN IF Change5(reg) > 0 /\ Change5(elig) < 0 THEN Some(65000)
             ELSE IF Change5(reg) < 0 THEN Some(70000)
             ELSE Some(50000)
        ELSE None

\* score_components, in the order the code appends them
ScoreComponents(inventory, delivery, pp, contract_size, quotient) ==
    LET inv == InventoryDrawdown(inventory, quotient)
    IN  (IF inv = None THEN <<>> ELSE <<InvScore(inv[1])>>)
        \o DeliveryAcceleration(delivery)
        \o PpSqueeze(pp)
        \o CoverageErosion(inventory, delivery, contract_size)
        \o EligibleFlow(inventory)

\* round(sum(score_components) / len(score_components), 1), in tenths
MeanScore(components, tieUp) ==
    Round1(RoundDivAway(SumFrom(components, 1), Len(components)), tieUp)

\* The calculator as it would be if it gave up without inventory rows
compute_physical_signalsNeedingInventory(inventory, delivery, pp, contract_size, quotient, tieUp) ==
    LET score_components == ScoreComponents(inventory, delivery, pp, contract_size, quotient)
        computed == Rows(inventory, "registered") > 0 /\ Len(score_components) > 0
    IN  [score |-> IF computed THEN Some(MeanScore(score_components, tieUp))
                   ELSE Some(NeutralScore),
         details |-> IF computed THEN "Inventory z, Delivery accel, P/P, Coverage"
                     ELSE "No physical signals",
         squeeze |-> None,
         z_score |-> InventoryDrawdown(inventory, quotient),
         components |-> IF computed THEN Len(score_components) ELSE 0]

compute_physical_signals(inventory, delivery, pp, contract_size, quotient, tieUp) ==
    LET score_components == ScoreComponents(inventory, delivery, pp, contract_size, quotient)
        squeeze == PpSqueeze(pp)
    IN  [score |-> IF Len(score_components) > 0
                   THEN Some(MeanScore(score_components, tieUp))
                   ELSE Some(NeutralScore),
         details |-> IF /\ InventoryDrawdown(inventory, quotient) = None
                        /\ DeliveryAcceleration(delivery) = None
                        /\ squeeze = None
                        /\ CoverageErosion(inventory, delivery, contract_size) = None
                     THEN "No physical signals"
                     ELSE "Inventory z, Delivery accel, P/P, Coverage",
         squeeze |-> IF squeeze = None THEN None
                     ELSE Some(Round1(squeeze[1], tieUp)),
         z_score |-> InventoryDrawdown(inventory, quotient),
         components |-> Len(score_components)]

(***************************************************************************)
(* 3. ARIMA FORECASTING                                                    *)
(* pmdarima is outside the program: what auto_arima and predict do is an   *)
(* input, library = [raises |-> where, h5 |-> range, h20 |-> range], where *)
(* "none", "fit", "5d" or "20d" and a range the low/mid/high prices in     *)
(* cents the prediction converts to.                                       *)
(***************************************************************************)
\* One observation short of the minimum
MinArimaPricesOffByOne == 30 - 1

MinArimaPrices == 30

ArimaInsufficient ==
    [score |-> Some(NeutralScore), details |-> "Insufficient data for ARIMA",
     fc5 |-> None, fc20 |-> None]

\* round((point - current_price) / current_price * 100, 2), in hundredths
PctChange(point, current_price) ==
    RoundHalfEven((point - current_price) * 10000, current_price)

\* result["forecasts"][f"{h}d"]
ForecastEntry(range, current_price) ==
    [low |-> range.low, mid |-> range.mid, high |-> range.high,
     pct_change |-> PctChange(range.mid, current_price)]

\* round(max(0, min(100, 50 + pct * 10)), 1), in tenths
ArimaScore(pct) == Max2(0, Min2(1000, 500 + pct))

\* The body of the try block; a division by a current price of 0 raises
\* ZeroDivisionError while the 5d entry is built
ArimaTry(current_price, library) ==
    IF library.raises \in {"fit", "5d"} \/ current_price = 0
    THEN [score |-> Some(NeutralScore), details |-> "ARIMA fitting failed",
          fc5 |-> None, fc20 |-> None]
    ELSE IF library.raises = "20d"
    THEN [score |-> Some(NeutralScore), details |-> "ARIMA fitting failed",
          fc5 |-> Some(ForecastEntry(library.h5, current_price)), fc20 |-> None]
    ELSE [score |-> Some(ArimaScore(PctChange(library.h5.mid, current_price))),
          details |-> "ARIMA projects over 5d",
          fc5 |-> Some(ForecastEntry(library.h5, current_price)),
          fc20 |-> Some(ForecastEntry(library.h20, current_price))]

run_arima_forecast(settle, library) ==
    IF Len(settle) = 0 THEN ArimaInsufficient
    ELSE LET s == DropNa(settle)
         IN  IF Len(s) < MinArimaPrices THEN ArimaInsufficient
             ELSE ArimaTry(Latest(s), library)

(***************************************************************************)
(* 4. MARKET ACTIVITY SIGNALS                                              *)
(***************************************************************************)
\* The column of prices when that frame has rows, else the column of oi
\* when that has rows, else no series
MarketSeries(prices, column, oi, oi_column) ==
    IF Len(prices[column]) > 0 THEN Some(DropNa(prices[column]))
    ELSE IF Len(oi[oi_column]) > 0 THEN Some(DropNa(oi[oi_column]))
    ELSE None

\* 100 * (oi_latest - oi_10d_ago) / oi_10d_ago as a fraction, 0 when
\* oi_10d_ago <= 0; oi_10d_ago is oi_series.iloc[-10]
OiPct(oi_series) ==
    LET oi_10d_ago == oi_series[Len(oi_series) - 9]
    IN  IF oi_10d_ago > 0
        THEN [num |-> 100 * (Latest(oi_series) - oi_10d_ago), den |-> oi_10d_ago]
        ELSE [num |-> 0, den |-> 1]

\* oi_score = max(0, min(100, 50 + oi_pct * 2)), in thousandths
OiScore(oi_series) ==
    Clamp100(50000 + RoundDivAway(2000 * OiPct(oi_series).num, OiPct(oi_series).den))

\* vol_score = max(0, min(100, 50 + (avg_5 / avg_20 - 1.0) * 30))
VolScore(vol_series) ==
    LET n == Min2(20, Len(vol_series))
        sum5 == SumLast(vol_series, 5)
        sumN == SumLast(vol_series, n)
    IN  Clamp100(50000 + RoundDivAway(30000 * (sum5 * n - 5 * sumN), 5 * sumN))

MarketScores(prices, oi) ==
    LET oi_series == MarketSeries(prices, "open_interest", oi, "open_interest")
        vol_series == MarketSeries(prices, "volume", oi, "total_volume")
    IN  (IF oi_series # None /\ Len(oi_series[1]) >= 10
         THEN <<OiScore(oi_series[1])>> ELSE <<>>)
        \o (IF /\ vol_series # None
               /\ Len(vol_series[1]) >= 10
               /\ SumLast(vol_series[1], Min2(20, Len(vol_series[1]))) > 0
            THEN <<VolScore(vol_series[1])>> ELSE <<>>)

compute_market_activity(prices, oi, tieUp) ==
    LET scores == MarketScores(prices, oi)
        oi_series == MarketSeries(prices, "open_interest", oi, "open_interest")
    IN  [score |-> IF Len(scores) > 0 THEN Some(MeanScore(scores, tieUp))
                   ELSE Some(NeutralScore),
         details |-> IF Len(scores) > 0 THEN "OI, volume" ELSE "No market data",
         oi_10d_change_pct |->
             IF oi_series # None /\ Len(oi_series[1]) >= 10
             THEN Some(RoundHalfEven(100 * OiPct(oi_series[1]).num, OiPct(oi_series[1]).den))
             ELSE None]

(***************************************************************************)
(* 5. CORRELATION ANALYSIS                                                 *)
(* Only the Granger test is carried: the Pearson and Spearman entries      *)
(* raise nothing that the function catches.  statsmodels is outside the    *)
(* program: granger is what its import and its test do, "unavailable"      *)
(* (the import raises), "raises", "significant" or "insignificant".  The   *)
(* rows of the two frames are taken to be the same trailing days.  caught  *)
(* tells whether the except clause ran, printed what the function wrote to *)
(* the log.                                                                *)
(***************************************************************************)
MinGrangerRows == 30

\* len(combined): the days on which both returns are known
GrangerRows(settle, inventory) ==
    Max2(0, Min2(Len(DropNa(settle)), Len(DropNa(inventory.registered))) - 1)

run_correlation_analysis(settle, inventory, granger) ==
    IF Len(settle) = 0 \/ Len(DropNa(settle)) < 30
    THEN [granger_inventory_causes_price |-> None, caught |-> FALSE, printed |-> <<>>]
    ELSE IF granger = "unavailable"
    THEN [granger_inventory_causes_price |-> None, caught |-> TRUE, printed |-> <<>>]
    ELSE IF Rows(inventory, "registered") > 0
            /\ GrangerRows(settle, inventory) >= MinGrangerRows
    THEN IF granger = "raises"
         THEN [granger_inventory_causes_price |-> None, caught |-> TRUE, printed |-> <<>>]
         ELSE [granger_inventory_causes_price |-> Some([significant |-> granger = "significant"]),
               caught |-> FALSE, printed |-> <<>>]
    ELSE [granger_inventory_causes_price |-> None, caught |-> FALSE, printed |-> <<>>]

(***************************************************************************)
(* 6. ANOMALY DETECTION                                                    *)
(* The rolling mean and deviation are numpy's: z is the quotient           *)
(* (latest_val - mean_val) / std_val in thousandths, or None when std_val  *)
(* is not positive or mean_val is NaN.  One quotient serves every metric.  *)
(***************************************************************************)
MinAnomalyObservations == 20

\* series_checks: the metrics whose frame has rows, each with its series
\* after dropna(); the diff() of n values has n - 1
SeriesChecks(frames) ==
    (IF Len(frames.inventory.registered) > 0
     THEN <<[name |-> "registered_inventory_change",
             observations |-> Max2(0, Len(DropNa(frames.inventory.registered)) - 1)]>>
     ELSE <<>>)
    \o (IF Len(frames.delivery.daily_issued) > 0
        THEN <<[name |-> "daily_deliveries",
                observations |-> Len(DropNa(frames.delivery.daily_issued))]>>
        ELSE <<>>)
    \o (IF Len(frames.prices.settle) > 0
        THEN <<[name |-> "trading_volume",
                observations |-> Len(DropNa(frames.prices.volume))],
               [name |-> "oi_change",
                observations |-> Len(DropNa(frames.prices.oi_change))]>>
        ELSE <<>>)

\* The bounds removed from the z of an anomaly
ClampZUnbounded(z) == z

\* max(-10.0, min(10.0, z)), in thousandths
ClampZ(z) == Max2(-10000, Min2(10000, z))

\* The entry of one metric, or none; z_score is round(z, 2), in hundredths
Anomaly(check, z) ==
    IF check.observations < MinAnomalyObservations \/ z = None THEN <<>>
    ELSE IF Abs(ClampZ(z[1])) > 2000
    THEN <<[metric |-> check.name,
            z_score |-> RoundHalfEven(ClampZ(z[1]), 10),
            direction |-> IF ClampZ(z[1]) > 0 THEN "above" ELSE "below"]>>
    ELSE <<>>

RECURSIVE AnomaliesFrom(_, _, _)
\* "for name, series in series_checks", from the i-th on
AnomaliesFrom(checks, z, i) ==
    IF i > Len(checks) THEN <<>>
    ELSE Anomaly(checks[i], z) \o AnomaliesFrom(checks, z, i + 1)

detect_anomalies(frames, z) == AnomaliesFrom(SeriesChecks(frames), z, 1)

(***************************************************************************)
(* 7. COMPOSITE FORECAST                                                   *)
(***************************************************************************)
Categories == <<"trend_momentum", "physical_stress", "arima_model", "market_activity">>

weights ==
    [trend_momentum |-> 30, physical_stress |-> 35,
     arima_model |-> 20, market_activity |-> 15]

\* dict.get("score", 0)
GetScoreOrZero(sig) == IF sig.score = None THEN 0 ELSE sig.score[1]

\* dict.get("score", 50)
GetScore(sig) == IF sig.score = None THEN NeutralScore ELSE sig.score[1]

\* The sum with the weights of trend and physical exchanged
WeightedSumSwapped(scores) ==
    weights.physical_stress * scores[1] + weights.trend_momentum * scores[2]
    + weights.arima_model * scores[3] + weights.market_activity * scores[4]

\* sum(scores[k] * weights[k] for k in weights), in thousandths
WeightedSum(scores) ==
    weights.trend_momentum * scores[1] + weights.physical_stress * scores[2]
    + weights.arima_model * scores[3] + weights.market_activity * scores[4]

\* round(max(0, min(100, composite)), 1), in tenths
CompositeScore(scores, tieUp) == Round1(Clamp100(WeightedSum(scores)), tieUp)

\* The thresholds taken strictly
DirectionStrict(composite) ==
    IF composite > 600 THEN "BULLISH"
    ELSE IF composite < 400 THEN "BEARISH"
    ELSE "NEUTRAL"

Direction(composite) ==
    IF composite >= 600 THEN "BULLISH"
    ELSE IF composite <= 400 THEN "BEARISH"
    ELSE "NEUTRAL"

\* The confidence before rounding is X = 0.6*|mean-50|/50*100
\* + 0.4*max(0, 1 - std/25)*100.  With S the sum of the four scores in
\* tenths and Q = 4*sum(s^2) - S^2, mean = S/40 and std = sqrt(Q)/40, so
\* X = 3*|S-2000|/100 + max(0, 40 - sqrt(Q)/25).
ScoreSum(scores) == scores[1] + scores[2] + scores[3] + scores[4]

ScoreSpread(scores) ==
    4 * (scores[1] * scores[1] + scores[2] * scores[2]
         + scores[3] * scores[3] + scores[4] * scores[4])
    - ScoreSum(scores) * ScoreSum(scores)

\* X >= c - 1/2, for an integer c
ConfidenceAtLeast(scores, c) ==
    LET D == Abs(ScoreSum(scores) - 2000)
        Q == ScoreSpread(scores)
        strength2 == 6 * D              \* 2 * 100 * the strength term
        need == 200 * c - 100 - strength2   \* agreement term must reach need/200
    IN  \/ need <= 0
        \/ /\ need <= 8000
           /\ Q <= 1000000
           \* 40 - sqrt(Q)/25 >= need/200  <=>  sqrt(Q) <= (8000 - need)/8
           /\ 64 * Q <= (8000 - need) * (8000 - need)

\* round(X, 0): the largest integer c with X >= c - 1/2 (an exact half,
\* which takes irrational-free inputs, goes to the even neighbour)
RawConfidence(scores) ==
    LET top == CHOOSE c \in 0..200 :
                  /\ ConfidenceAtLeast(scores, c)
                  /\ ~ConfidenceAtLeast(scores, c + 1)
        D == Abs(ScoreSum(scores) - 2000)
        Q == ScoreSpread(scores)
        need == 200 * top - 100 - 6 * D
        exactHalf == \/ (need > 0 /\ Q <= 1000000 /\ need <= 8000
                          /\ 64 * Q = (8000 - need) * (8000 - need))
                     \/ (Q >= 1000000 /\ need = 0)
    IN  IF exactHalf /\ top % 2 = 1 THEN top - 1 ELSE top

\* The rounded confidence without the clamp
ConfidenceUnclamped(scores) == RawConfidence(scores)

\* The confidence as it would be without the agreement term
ConfidenceStrengthOnly(scores) ==
    Max2(10, Min2(95, RoundHalfEven(3 * Abs(ScoreSum(scores) - 2000), 100)))

\* max(10, min(95, confidence))
Confidence(scores) == Max2(10, Min2(95, RawConfidence(scores)))

\* round(pp_squeeze.get("squeeze_score", 30), 0) if pp_squeeze else 30
SqueezeProbability(squeeze) ==
    IF squeeze = None THEN 30 ELSE RoundHalfEven(squeeze[1], 10)

Deviation(scores, i) == Abs(scores[i] - NeutralScore)

\* The position as it would be if the sort reversed the order of ties
DriverRankTiesReversed(scores, i) ==
    1 + Cardinality({j \in 1..4 :
            \/ Deviation(scores, j) > Deviation(scores, i)
            \/ (Deviation(scores, j) = Deviation(scores, i) /\ j > i)})

\* Position of category i after the stable descending sort on deviation
DriverRank(scores, i) ==
    1 + Cardinality({j \in 1..4 :
            \/ Deviation(scores, j) > Deviation(scores, i)
            \/ (Deviation(scores, j) = Deviation(scores, i) /\ j < i)})

BullBear(score) ==
    IF score > NeutralScore THEN "bullish"
    ELSE IF score < NeutralScore THEN "bearish" ELSE "neutral"

\* dict.get("details", "")
GetDetails(sig) == IF "details" \in DOMAIN sig THEN sig.details ELSE ""

\* driver_details, in the order of the categories
DriverDetails(trend, physical, arima, market) ==
    <<GetDetails(trend), GetDetails(physical), GetDetails(arima), GetDetails(market)>>

\* deviations[:3], each rendered "<label>: <bull_bear> (<detail>)"
KeyDrivers(scores, driver_details) ==
    [p \in 1..3 |->
        LET i == CHOOSE k \in 1..4 : DriverRank(scores, k) = p
        IN  [name |-> Categories[i], bull_bear |-> BullBear(scores[i]),
             detail |-> driver_details[i]]]

Scores(trend, physical, arima, market) ==
    <<GetScore(trend), GetScore(physical), GetScore(arima), GetScore(market)>>

composite_forecast(trend, physical, arima, market, tieUp) ==
    LET scores == Scores(trend, physical, arima, market)
        composite == CompositeScore(scores, tieUp)
    IN  [direction |-> Direction(composite),
         composite_score |-> composite,
         confidence |-> Confidence(scores),
         squeeze_probability |-> SqueezeProbability(physical.squeeze),
         key_drivers |-> KeyDrivers(scores, DriverDetails(trend, physical, arima, market)),
         signals |-> scores]

(***************************************************************************)
(* Configuration and inputs of a run                                       *)
(***************************************************************************)
\* METALS, in dict order (the model carries the first two)
MetalOrder == <<"Gold", "Silver">>

Metals == {MetalOrder[i] : i \in 1..Len(MetalOrder)}

\* Two invocations of the program that may overlap in time
Runs == {"A", "B"}

eval_horizon == 5

TrackingWindow == 30

MaxDay == 5

MaxRuns == 2

\* What the calculators and analysers hand to the combiner for one metal,
\* with the latest settle price in cents (0 when the price series is empty)
Signals(t, p, sq, a, fc5, fc20, m, price, regime) ==
    [trend |-> [score |-> Some(t)],
     physical |-> [score |-> Some(p), squeeze |-> sq],
     arima |-> [score |-> Some(a), fc5 |-> fc5, fc20 |-> fc20],
     market |-> [score |-> Some(m)],
     price |-> price, regime |-> regime, tieUp |-> FALSE]

Range3(low, mid, high) == Some([low |-> low, mid |-> mid, high |-> high])

\* Data sets a run may find for a metal
Rally == Signals(700, 800, Some(725), 650, Range3(98, 101, 104), Range3(95, 102, 110),
                 600, 100, "TRENDING")

Slump == Signals(300, 250, None, 400, Range3(190, 198, 205), None,
                 450, 200, "VOLATILE")

Flat == Signals(500, 500, None, 500, None, None, 500, 100, "RANGING")

\* an empty price series: physical stress alone drives the composite
NoPrices == Signals(500, 1000, Some(900), 500, None, None, 500, 0, "UNKNOWN")

AllInputs == {Rally, Slump, Flat, NoPrices}

Found(d) == [raises |-> FALSE, data |-> Some(d)]

Raises == [raises |-> TRUE, data |-> None]

\* What the pipelines of one run meet, metal by metal
RunInputs ==
    { [Gold |-> Found(Rally), Silver |-> Found(Flat)],
      [Gold |-> Found(Slump), Silver |-> Found(NoPrices)],
      [Gold |-> Raises, Silver |-> Found(Flat)],
      [Gold |-> Found(Rally), Silver |-> Raises] }

(***************************************************************************)
(* MAIN: run_forecast_for_metal and the batch loop                         *)
(***************************************************************************)
run_forecast_for_metal(d) ==
    LET forecast == composite_forecast(d.trend, d.physical, d.arima, d.market, d.tieUp)
    IN  [direction |-> forecast.direction,
         confidence |-> forecast.confidence,
         composite_score |-> forecast.composite_score,
         current_price |-> d.price,
         forecast_5d |-> d.arima.fc5,
         forecast_20d |-> d.arima.fc20,
         squeeze_probability |-> forecast.squeeze_probability,
         regime |-> d.regime,
         signals |-> Some(forecast.signals),
         key_drivers |-> forecast.key_drivers,
         error |-> None]

\* The except-branch of main(): the result stored for a metal whose
\* pipeline raised e
Unavailable(e) ==
    [direction |-> "NEUTRAL",
     confidence |-> 0,
     composite_score |-> 500,
     current_price |-> 0,
     forecast_5d |-> None,
     forecast_20d |-> None,
     squeeze_probability |-> 0,
     regime |-> "UNKNOWN",
     signals |-> None,
     key_drivers |-> <<[name |-> "Forecast unavailable", bull_bear |-> e]>>,
     error |-> Some(e)]

\* run_forecast_for_metal over the data sets of the model
Forecasts == [d \in AllInputs |-> run_forecast_for_metal(d)]

\* The iteration as it would be if the except-branch replaced the results
\* collected so far
ForecastOneResetOnError(out, m, inp) ==
    IF inp.raises
    THEN (m :> Unavailable("error"))
    ELSE (m :> Forecasts[inp.data[1]]) @@ out

\* One iteration of "for metal in METALS": try / except Exception
ForecastOne(out, m, inp) ==
    IF inp.raises
    THEN (m :> Unavailable("error")) @@ out
    ELSE (m :> Forecasts[inp.data[1]]) @@ out

RECURSIVE MainLoop(_, _, _)
\* output["metals"] after the loop has run over metals i..n
MainLoop(out, i, inps) ==
    IF i > Len(MetalOrder) THEN out
    ELSE MainLoop(ForecastOne(out, MetalOrder[i], inps[MetalOrder[i]]), i + 1, inps)

\* output["metals"].items(), in insertion order
Items(out) == SelectSeq(MetalOrder, LAMBDA m : m \in DOMAIN out)

(***************************************************************************)
(* The tables                                                              *)
(***************************************************************************)
\* .get(..., default) of the snapshot INSERT's parameter tuple
ScoreOr50(fc, i) == IF fc.signals = None THEN NeutralScore ELSE fc.signals[1][i]

SnapshotRow(metal, day, fc) ==
    [metal |-> metal, forecast_date |-> day,
     direction |-> fc.direction,
     confidence |-> fc.confidence,
     composite_score |-> fc.composite_score,
     price_at_forecast |-> fc.current_price,
     squeeze_probability |-> fc.squeeze_probability,
     regime |-> fc.regime,
     trend_score |-> ScoreOr50(fc, 1),
     physical_score |-> ScoreOr50(fc, 2),
     arima_score |-> ScoreOr50(fc, 3),
     market_score |-> ScoreOr50(fc, 4),
     forecast_5d |-> fc.forecast_5d,
     forecast_20d |-> fc.forecast_20d,
     key_drivers |-> fc.key_drivers]

\* UNIQUE(metal, forecast_date); the SERIAL id of a row is identified with
\* this key (rows are never deleted, and an id is only ever read from a
\* committed row)
SnapKey(s) == <<s.metal, s.forecast_date>>

\* UNIQUE(metal, forecast_date, eval_horizon_days)
AccKey(a) == <<a.metal, a.forecast_date, a.eval_horizon_days>>

\* UNIQUE(metal, forecast_date, tracking_date)
TrackKey(t) == <<t.metal, t.forecast_date, t.tracking_date>>

\* What the snapshot INSERT would do without its ON CONFLICT clause and
\* without the UNIQUE constraint
SnapshotPlainInsert(rows, new) == rows \cup {new}

\* The upsert as it would be with ON CONFLICT ... DO NOTHING: the first run
\* of a date wins
UpsertSnapshotKeepingFirst(rows, new) ==
    IF \E s \in rows : SnapKey(s) = SnapKey(new) THEN rows ELSE rows \cup {new}

\* The upsert as it would be with a conflict target of (metal) alone
UpsertSnapshotByMetal(rows, new) ==
    {s \in rows : s.metal # new.metal} \cup {new}

\* INSERT ... ON CONFLICT (metal, forecast_date) DO UPDATE SET <every column>
UpsertSnapshot(rows, new) ==
    {s \in rows : SnapKey(s) # SnapKey(new)} \cup {new}

\* What the accuracy INSERT would do without its ON CONFLICT clause and
\* without the UNIQUE constraint
AccuracyPlainInsert(rows, new) == rows \cup {new}

\* INSERT ... ON CONFLICT (metal, forecast_date, eval_horizon_days) DO NOTHING
InsertAccuracy(rows, new) ==
    IF \E a \in rows : AccKey(a) = AccKey(new) THEN rows ELSE rows \cup {new}

\* INSERT ... ON CONFLICT (metal, forecast_date, tracking_date) DO UPDATE SET
\* live_price, price_change, price_change_pct, is_tracking
UpsertTracking(rows, new) ==
    IF \E t \in rows : TrackKey(t) = TrackKey(new)
    THEN {IF TrackKey(t) = TrackKey(new)
          THEN [t EXCEPT !.live_price = new.live_price,
                         !.price_change = new.price_change,
                         !.price_change_pct = new.price_change_pct,
                         !.is_tracking = new.is_tracking]
          ELSE t : t \in rows}
    ELSE rows \cup {new}

\* current_prices: the metals of this run with a positive current price
current_prices(out) ==
    [m \in {k \in DOMAIN out : out[k].current_price > 0} |-> out[m].current_price]

\* The comparison with an unchanged price counted as a hit
CorrectOrUnchanged(direction, price_change) ==
    \/ (direction = "BULLISH" /\ price_change >= 0)
    \/ (direction = "BEARISH" /\ price_change <= 0)

\* (direction == "BULLISH" and price_change > 0) or
\* (direction == "BEARISH" and price_change < 0)
Correct(direction, price_change) ==
    \/ (direction = "BULLISH" /\ price_change > 0)
    \/ (direction = "BEARISH" /\ price_change < 0)

\* price_change_pct in ten-thousandths of a percent
PriceChangePct(price_change, price_then) ==
    RoundDivAway(price_change * 1000000, price_then)

AccuracyRow(u, day, price_now) ==
    [metal |-> u.metal, forecast_date |-> u.forecast_date,
     direction |-> u.direction,
     price_at_forecast |-> u.price_at_forecast,
     eval_date |-> day,
     eval_horizon_days |-> eval_horizon,
     price_at_eval |-> price_now,
     price_change |-> price_now - u.price_at_forecast,
     price_change_pct |-> PriceChangePct(price_now - u.price_at_forecast, u.price_at_forecast),
     correct |-> Correct(u.direction, price_now - u.price_at_forecast)]

TrackingRow(u, day, price_now) ==
    [metal |-> u.metal, forecast_date |-> u.forecast_date,
     tracking_date |-> day,
     days_since_forecast |-> day - u.forecast_date,
     price_at_forecast |-> u.price_at_forecast,
     live_price |-> price_now,
     price_change |-> price_now - u.price_at_forecast,
     price_change_pct |-> PriceChangePct(price_now - u.price_at_forecast, u.price_at_forecast),
     direction_at_forecast |-> u.direction,
     is_tracking |-> Correct(u.direction, price_now - u.price_at_forecast)]

\* The columns a SELECT over forecast_snapshots hands back
Fetched(s) ==
    [metal |-> s.metal, forecast_date |-> s.forecast_date,
     direction |-> s.direction, price_at_forecast |-> s.price_at_forecast]

\* The SELECT without its direction filter
UnevaluatedAnyDirection(snaps, acc, current_date) ==
    {s \in snaps :
        /\ s.forecast_date <= current_date - eval_horizon
        /\ ~\E a \in acc : /\ a.metal = s.metal
                           /\ a.forecast_date = s.forecast_date
                           /\ a.eval_horizon_days = eval_horizon}

\* The SELECT with a strict date comparison
UnevaluatedOlderThanHorizon(snaps, acc, current_date) ==
    {s \in snaps :
        /\ s.direction # "NEUTRAL"
        /\ s.forecast_date < current_date - eval_horizon
        /\ ~\E a \in acc : /\ a.metal = s.metal
                           /\ a.forecast_date = s.forecast_date
                           /\ a.eval_horizon_days = eval_horizon}

\* The SELECT restricted to the snapshots with a positive price_at_forecast
UnevaluatedPricedOnly(snaps, acc, current_date) ==
    {s \in snaps :
        /\ s.direction # "NEUTRAL"
        /\ s.price_at_forecast > 0
        /\ s.forecast_date <= current_date - eval_horizon
        /\ ~\E a \in acc : /\ a.metal = s.metal
                           /\ a.forecast_date = s.forecast_date
                           /\ a.eval_horizon_days = eval_horizon}

\* SELECT ... LEFT JOIN forecast_accuracy ... WHERE fs.direction != 'NEUTRAL'
\* AND fs.forecast_date <= CURRENT_DATE - 5 AND fa.id IS NULL
Unevaluated(snaps, acc, current_date) ==
    {s \in snaps :
        /\ s.direction # "NEUTRAL"
        /\ s.forecast_date <= current_date - eval_horizon
        /\ ~\E a \in acc : /\ a.metal = s.metal
                           /\ a.forecast_date = s.forecast_date
                           /\ a.eval_horizon_days = eval_horizon}

\* The SELECT restricted to the forecasts not yet old enough to be evaluated
RecentForecastsYoungerThanHorizon(snaps, current_date) ==
    {s \in snaps :
        /\ s.forecast_date >= current_date - 30
        /\ s.forecast_date > current_date - eval_horizon
        /\ s.direction # "NEUTRAL"}

\* SELECT ... WHERE forecast_date >= CURRENT_DATE - 30 AND direction != 'NEUTRAL'
RecentForecasts(snaps, current_date) ==
    {s \in snaps :
        /\ s.forecast_date >= current_date - TrackingWindow
        /\ s.direction # "NEUTRAL"}

MetalPos(m) == CHOOSE i \in 1..Len(MetalOrder) : MetalOrder[i] = m

\* r1 comes before r2 under ORDER BY forecast_date [DESC]; tie fixes the
\* order of the rows of one date, which SQL leaves to the server
Before(r1, r2, desc, tie) ==
    IF r1.forecast_date # r2.forecast_date
    THEN IF desc THEN r1.forecast_date > r2.forecast_date
                 ELSE r1.forecast_date < r2.forecast_date
    ELSE IF tie THEN MetalPos(r1.metal) < MetalPos(r2.metal)
                ELSE MetalPos(r1.metal) > MetalPos(r2.metal)

RECURSIVE OrderBy(_, _, _)
\* cur.fetchall() of an ordered SELECT
OrderBy(rows, desc, tie) ==
    IF rows = {} THEN <<>>
    ELSE LET first == CHOOSE a \in rows :
                          \A b \in rows \ {a} : Before(a, b, desc, tie)
         IN  <<first>> \o OrderBy(rows \ {first}, desc, tie)

(***************************************************************************)
(* State                                                                   *)
(***************************************************************************)
VARIABLES
    calendar,    \* the days the model follows (fixed in the initial state)
    limit,       \* the invocations the model follows (fixed in the initial state)
    args,        \* the arguments of a call followed on its own
    result,      \* what that call returned, None before it
    data,        \* the frames fetch_all_data() returned for a metal
    signals,     \* a call on those frames: what it was given and returned
    clock,       \* the calendar day: datetime.now() and the server's CURRENT_DATE
    snapshots,   \* committed rows of forecast_snapshots
    accuracy,    \* committed rows of forecast_accuracy
    tracking,    \* committed rows of forecast_price_tracking
    history,     \* history["forecasts"] of public/forecast_history.json
    started,     \* invocations of the program so far
    pc,          \* where each invocation stands
    output,      \* output["metals"] of each invocation
    today,       \* the date string update_forecast_history computed on entry
    rows,        \* the fetchall() result the invocation is about to loop over
    inputs,      \* history variable: what each metal's pipeline was given
    failure,     \* history variable: the stage and statement the except branch caught
    stages,      \* history variable: the stages of the update this invocation entered
    wrote,       \* history variable: accuracy rows this invocation committed
    latest       \* history variable: per key, the snapshot row last committed

vars == <<calendar, limit, args, data, result, signals, clock, snapshots, accuracy, tracking, history, started, pc, output,
          today, rows, inputs, failure, stages, wrote, latest>>

tables == <<snapshots, accuracy, tracking>>

setup == <<calendar, limit, args, data>>

\* What the calls under study returned
returned == <<result, signals>>

NoFailure == [stage |-> "none", at |-> 0]

\* The days around the evaluation horizon: the first day, the last day
\* before a forecast of the first day can be evaluated, and the days after it
HorizonDays == {0, eval_horizon - 1} \cup (eval_horizon..MaxDay)

\* No call of composite_forecast is followed
NoCall == [trend |-> [score |-> None],
           physical |-> [score |-> None, squeeze |-> None],
           arima |-> [score |-> None],
           market |-> [score |-> None],
           tieUp |-> FALSE]

\* The frames of a metal the database holds nothing about
NoData ==
    [prices |-> [settle |-> <<>>, volume |-> <<>>, open_interest |-> <<>>,
                 oi_change |-> <<>>],
     inventory |-> [registered |-> <<>>, eligible |-> <<>>],
     delivery |-> [daily_issued |-> <<>>],
     oi |-> [open_interest |-> <<>>, total_volume |-> <<>>],
     pp |-> [pp_ratio |-> <<>>],
     contract_size |-> 100]

\* Nothing has run yet
Start(days, invocations, call, frames) ==
    /\ calendar = days
    /\ limit = invocations
    /\ args = call
    /\ result = None
    /\ data = frames
    /\ signals = None
    /\ clock = 0
    /\ snapshots = {} /\ accuracy = {} /\ tracking = {}
    /\ history = <<>>
    /\ started = 0
    /\ pc = [r \in Runs |-> "idle"]
    /\ output = [r \in Runs |-> <<>>]
    /\ today = [r \in Runs |-> 0]
    /\ rows = [r \in Runs |-> <<>>]
    /\ inputs = [r \in Runs |-> <<>>]
    /\ failure = [r \in Runs |-> NoFailure]
    /\ stages = [r \in Runs |-> {}]
    /\ wrote = [r \in Runs |-> {}]
    /\ latest = {}

Init == Start(HorizonDays, MaxRuns, NoCall, NoData)

\* One more invocation than Init allows
InitLonger == Start(HorizonDays, MaxRuns + 1, NoCall, NoData)

\* The process ends: its locals are gone
Exit(r) ==
    /\ pc' = [pc EXCEPT ![r] = "idle"]
    /\ output' = [output EXCEPT ![r] = <<>>]
    /\ today' = [today EXCEPT ![r] = 0]
    /\ rows' = [rows EXCEPT ![r] = <<>>]
    /\ inputs' = [inputs EXCEPT ![r] = <<>>]
    /\ failure' = [failure EXCEPT ![r] = NoFailure]
    /\ stages' = [stages EXCEPT ![r] = {}]
    /\ wrote' = [wrote EXCEPT ![r] = {}]

(***************************************************************************)
(* main() up to the first statement of update_forecast_history()           *)
(***************************************************************************)
\* An invocation begins.  The two are interchangeable, so the second is
\* taken only to overlap the first.
CanStart(r) ==
    /\ pc[r] = "idle"
    /\ started < limit
    /\ r = "B" => pc["A"] # "idle"

\* The batch loop over METALS; forecast.json is written; then the entry of
\* update_forecast_history: today = datetime.now(), get_db_connection(),
\* CREATE TABLE IF NOT EXISTS ..., conn.commit()
Main(r) ==
    /\ CanStart(r)
    /\ \E inps \in RunInputs :
          /\ output' = [output EXCEPT ![r] = MainLoop(<<>>, 1, inps)]
          /\ inputs' = [inputs EXCEPT ![r] = inps]
    /\ started' = started + 1
    /\ today' = [today EXCEPT ![r] = clock]
    /\ stages' = [stages EXCEPT ![r] = {"snapshot"}]
    /\ pc' = [pc EXCEPT ![r] = "snap"]
    /\ UNCHANGED <<setup, returned, clock, tables, history, rows, failure, wrote, latest>>

\* The same, but get_db_connection() raises: it is called outside the try
\* block, so the exception leaves update_forecast_history and main
MainConnectFail(r) ==
    /\ CanStart(r)
    /\ started' = started + 1
    /\ UNCHANGED <<setup, returned, clock, tables, history, pc, output, today, rows, inputs,
                   failure, stages, wrote, latest>>

(***************************************************************************)
(* update_forecast_history().  Each of its three transactions is one step: *)
(* the rows a connection has written are invisible to every other          *)
(* connection until conn.commit(), and conn.rollback() in the except       *)
(* branch discards whatever the open transaction wrote.                    *)
(***************************************************************************)
RECURSIVE SnapshotLoop(_, _, _, _)
\* 2. "for metal, fc in output["metals"].items()": the table as the
\* connection sees it after iterations i..n
SnapshotLoop(table, out, day, i) ==
    IF i > Len(Items(out)) THEN table
    ELSE LET metal == Items(out)[i]
         IN  SnapshotLoop(UpsertSnapshot(table, SnapshotRow(metal, day, out[metal])),
                          out, day, i + 1)

\* The snapshot loop and its conn.commit()
SnapshotStage(r) ==
    /\ pc[r] = "snap"
    /\ snapshots' = SnapshotLoop(snapshots, output[r], today[r], 1)
    /\ latest' =
          LET mine == {SnapshotRow(m, today[r], output[r][m]) : m \in DOMAIN output[r]}
          IN  {l \in latest : \A n \in mine : SnapKey(l) # SnapKey(n)} \cup mine
    /\ pc' = [pc EXCEPT ![r] = "select_eval"]
    /\ UNCHANGED <<setup, returned, clock, accuracy, tracking, history, started, output, today,
                   rows, inputs, failure, stages, wrote>>

\* The INSERT of the at-th metal raises (or, past the last metal, the
\* commit does): except Exception prints the error and rolls back, finally
\* closes the connection
SnapshotFail(r) ==
    /\ pc[r] = "snap"
    /\ \E at \in 1..(Len(Items(output[r])) + 1) :
          failure' = [failure EXCEPT ![r] = [stage |-> "snapshot", at |-> at]]
    /\ pc' = [pc EXCEPT ![r] = "backup"]
    /\ UNCHANGED <<setup, returned, clock, tables, history, started, output, today, rows,
                   inputs, stages, wrote, latest>>

\* 3. The SELECT of past forecasts old enough to evaluate
SelectUnevaluated(r) ==
    /\ pc[r] = "select_eval"
    /\ rows' = [rows EXCEPT ![r] =
          OrderBy({Fetched(s) : s \in Unevaluated(snapshots, accuracy, clock)},
                  FALSE, TRUE)]
    /\ stages' = [stages EXCEPT ![r] = @ \cup {"evaluation"}]
    /\ pc' = [pc EXCEPT ![r] = "eval"]
    /\ UNCHANGED <<setup, returned, clock, tables, history, started, output, today, inputs,
                   failure, wrote, latest>>

RECURSIVE EvaluationLoop(_, _, _, _, _)
\* "for snap_id, metal, fdate, direction, price_then in unevaluated"
EvaluationLoop(table, unevaluated, prices, day, i) ==
    IF i > Len(unevaluated) THEN table
    ELSE LET u == unevaluated[i]
         IN  IF u.metal \notin DOMAIN prices \/ u.price_at_forecast <= 0
             THEN EvaluationLoop(table, unevaluated, prices, day, i + 1)
             ELSE EvaluationLoop(
                      InsertAccuracy(table, AccuracyRow(u, day, prices[u.metal])),
                      unevaluated, prices, day, i + 1)

\* The evaluation loop and its conn.commit()
EvaluationStage(r) ==
    /\ pc[r] = "eval"
    /\ accuracy' = EvaluationLoop(accuracy, rows[r], current_prices(output[r]), today[r], 1)
    /\ wrote' = [wrote EXCEPT ![r] = accuracy' \ accuracy]
    /\ pc' = [pc EXCEPT ![r] = "select_track"]
    /\ UNCHANGED <<setup, returned, clock, snapshots, tracking, history, started, output, today,
                   rows, inputs, failure, stages, latest>>

\* 4. The SELECT of the forecasts of the last 30 days
SelectRecent(r) ==
    /\ pc[r] = "select_track"
    /\ rows' = [rows EXCEPT ![r] =
          OrderBy({Fetched(s) : s \in RecentForecasts(snapshots, clock)}, TRUE, TRUE)]
    /\ stages' = [stages EXCEPT ![r] = @ \cup {"tracking"}]
    /\ pc' = [pc EXCEPT ![r] = "track"]
    /\ UNCHANGED <<setup, returned, clock, tables, history, started, output, today, inputs,
                   failure, wrote, latest>>

RECURSIVE TrackingLoop(_, _, _, _, _)
\* "for metal, fdate, direction, price_then in recent_forecasts"
TrackingLoop(table, recent_forecasts, prices, day, i) ==
    IF i > Len(recent_forecasts) THEN table
    ELSE LET u == recent_forecasts[i]
         IN  IF u.metal \notin DOMAIN prices \/ u.price_at_forecast <= 0
             THEN TrackingLoop(table, recent_forecasts, prices, day, i + 1)
             ELSE TrackingLoop(
                      UpsertTracking(table, TrackingRow(u, day, prices[u.metal])),
                      recent_forecasts, prices, day, i + 1)

\* The price-tracking loop and its conn.commit(); 5. the accuracy summary is
\* read and printed; cur.close(); conn.close()
TrackingStage(r) ==
    /\ pc[r] = "track"
    /\ tracking' = TrackingLoop(tracking, rows[r], current_prices(output[r]), today[r], 1)
    /\ pc' = [pc EXCEPT ![r] = "backup"]
    /\ UNCHANGED <<setup, returned, clock, snapshots, accuracy, history, started, output, today,
                   rows, inputs, failure, stages, wrote, latest>>

StageOf(p) ==
    IF p \in {"select_eval", "eval"} THEN "evaluation" ELSE "tracking"

\* A statement or the commit of the evaluation or of the price tracking
\* raises: except Exception prints the error and rolls back, finally closes
\* the connection
PersistFail(r) ==
    /\ pc[r] \in {"select_eval", "eval", "select_track", "track"}
    /\ failure' = [failure EXCEPT ![r] = [stage |-> StageOf(pc[r]), at |-> 0]]
    /\ pc' = [pc EXCEPT ![r] = "backup"]
    /\ UNCHANGED <<setup, returned, clock, tables, history, started, output, today, rows,
                   inputs, stages, wrote, latest>>

(***************************************************************************)
(* _write_accuracy_json_backup()                                           *)
(***************************************************************************)
HistoryDays == 90

HistoryEntry(day, out) ==
    [date |-> day,
     calls |-> [m \in DOMAIN out |->
                  [direction |-> out[m].direction,
                   confidence |-> out[m].confidence,
                   composite_score |-> out[m].composite_score,
                   price_at_forecast |-> out[m].current_price]]]

\* The call as it would be if it appended the entry of the day
\* unconditionally
BackupHistoryAlwaysAppending(forecasts, day, out) ==
    SelectSeq(Append(forecasts, HistoryEntry(day, out)),
              LAMBDA e : e.date >= day - 90)

\* The call as it would be if the entry of the day were replaced by the
\* latest run's
BackupHistoryLatestWins(forecasts, day, out) ==
    SelectSeq(Append(SelectSeq(forecasts, LAMBDA e : e.date # day),
                     HistoryEntry(day, out)),
              LAMBDA e : e.date >= day - 90)

\* history["forecasts"] after the call made on `day` with `out`
BackupHistory(forecasts, day, out) ==
    LET existing_dates == {forecasts[i].date : i \in 1..Len(forecasts)}
        appended == IF day \notin existing_dates
                    THEN Append(forecasts, HistoryEntry(day, out))
                    ELSE forecasts
    IN  SelectSeq(appended, LAMBDA e : e.date >= day - HistoryDays)

\* The read of forecast_history.json: file is "absent", "unreadable"
\* (json.load or open raises) or the forecasts it holds; caught tells whether
\* the except clause ran, printed what it wrote to the log
ReadHistory(file) ==
    IF file = "absent" THEN [forecasts |-> <<>>, caught |-> FALSE, printed |-> <<>>]
    ELSE IF file = "unreadable" THEN [forecasts |-> <<>>, caught |-> TRUE, printed |-> <<>>]
    ELSE [forecasts |-> file, caught |-> FALSE, printed |-> <<>>]

\* _write_accuracy_json_backup(output) on `day`: what it writes, and what it
\* caught and printed on the way
write_accuracy_json_backup(file, day, out) ==
    LET read == ReadHistory(file)
    IN  [forecasts |-> BackupHistory(read.forecasts, day, out),
         caught |-> read.caught, printed |-> read.printed]

WriteBackup(r) ==
    /\ pc[r] = "backup"
    /\ history' = BackupHistory(history, clock, output[r])
    /\ Exit(r)
    /\ UNCHANGED <<setup, returned, clock, tables, started, latest>>

(***************************************************************************)
(* The calendar.  An invocation is taken to complete within one day and    *)
(* the client's date to agree with the server's CURRENT_DATE: the day      *)
(* changes only while no invocation is under way.                          *)
(***************************************************************************)
AdvanceDay ==
    /\ \A r \in Runs : pc[r] = "idle"
    /\ \E day \in calendar :
          /\ day > clock
          /\ \A d \in calendar : d > clock => day <= d
          /\ clock' = day
    /\ UNCHANGED <<setup, returned, tables, history, started, pc, output, today, rows, inputs,
                   failure, stages, wrote, latest>>

Next ==
    \/ AdvanceDay
    \/ \E r \in Runs :
          \/ Main(r)
          \/ MainConnectFail(r)
          \/ SnapshotStage(r)
          \/ SnapshotFail(r)
          \/ SelectUnevaluated(r)
          \/ EvaluationStage(r)
          \/ SelectRecent(r)
          \/ TrackingStage(r)
          \/ PersistFail(r)
          \/ WriteBackup(r)

Spec == Init /\ [][Next]_vars

SpecLonger == InitLonger /\ [][Next]_vars

\* The invocations of Init over days that reach across the 90 days the
\* local history keeps
HistoryCalendar == {0, 1, HistoryDays, HistoryDays + 1}

InitHistory == Start(HistoryCalendar, MaxRuns, NoCall, NoData)

SpecHistory == InitHistory /\ [][Next]_vars

\* The next statement of an invocation that is under way, whether it
\* succeeds or raises
Proceed(r) ==
    \/ SnapshotStage(r)
    \/ SnapshotFail(r)
    \/ SelectUnevaluated(r)
    \/ EvaluationStage(r)
    \/ SelectRecent(r)
    \/ TrackingStage(r)
    \/ PersistFail(r)
    \/ WriteBackup(r)

\* Runs keep occurring: on the last day of the calendar the count of
\* invocations starts afresh each time the program has ended
Recur ==
    /\ \A r \in Runs : pc[r] = "idle"
    /\ \A day \in calendar : day <= clock
    /\ started = limit
    /\ started' = 0
    /\ UNCHANGED <<setup, returned, clock, tables, history, pc, output, today, rows, inputs,
                   failure, stages, wrote, latest>>

\* The program is started again
StartAgain == Main("A") \/ MainConnectFail("A") \/ Recur

\* A forecast day and the day it comes up for evaluation, one invocation at
\* a time
InitRecurring == Start({0, eval_horizon}, 1, NoCall, NoData)

NextRecurring == Next \/ Recur

\* An invocation that has begun runs on to its end (the process executes its
\* statements in sequence and nothing in them waits), and on the last day
\* the program is started again and again
SpecProgress ==
    /\ InitRecurring /\ [][NextRecurring]_vars
    /\ \A r \in Runs : WF_vars(Proceed(r))
    /\ WF_vars(StartAgain)

(***************************************************************************)
(* The combiner on its own: one call of composite_forecast on arguments    *)
(* drawn from sample scores, in and out of [0, 100], present or missing.   *)
(***************************************************************************)
ScoreSamples ==
    {None, Some(-200), Some(10), Some(400), Some(500), Some(600), Some(1000), Some(1200)}

SqueezeSamples == {None, Some(425), Some(900)}

Calls ==
    {[trend |-> [score |-> t, details |-> "SMA, MACD, RSI, ROC"],
      physical |-> [score |-> p, squeeze |-> sq, details |-> "No physical signals"],
      arima |-> [score |-> a, details |-> "ARIMA projects over 5d"],
      market |-> [score |-> m],
      tieUp |-> up] :
        t \in ScoreSamples, p \in ScoreSamples, a \in ScoreSamples,
        m \in ScoreSamples, sq \in SqueezeSamples, up \in BOOLEAN}

InitCombiner == \E call \in Calls : Start({0}, 0, call, NoData)

Combine ==
    /\ result = None
    /\ result' = Some(composite_forecast(args.trend, args.physical, args.arima,
                                         args.market, args.tieUp))
    /\ UNCHANGED <<setup, signals, clock, tables, history, started, pc, output, today,
                   rows, inputs, failure, stages, wrote, latest>>

\* What run_forecast_for_metal works on when the calculators have returned
\* the signals of the call (latest settle 1.00, no forecast ranges)
CallData(call) ==
    [trend |-> call.trend,
     physical |-> call.physical,
     arima |-> [score |-> call.arima.score, details |-> call.arima.details,
                fc5 |-> None, fc20 |-> None],
     market |-> call.market,
     price |-> 100, regime |-> "UNKNOWN", tieUp |-> call.tieUp]

\* main(): the try-branch of the loop for the first metal, the pipeline
\* having combined the signals of the call
EmitForecast ==
    /\ output["A"] = <<>>
    /\ output' = [output EXCEPT !["A"] =
                     (MetalOrder[1] :> run_forecast_for_metal(CallData(args))) @@ @]
    /\ UNCHANGED <<setup, returned, clock, tables, history, started, pc, today,
                   rows, inputs, failure, stages, wrote, latest>>

\* main(): the except-branch of the loop for the first metal
EmitPlaceholder ==
    /\ output["A"] = <<>>
    /\ output' = [output EXCEPT !["A"] = (MetalOrder[1] :> Unavailable("error")) @@ @]
    /\ UNCHANGED <<setup, returned, clock, tables, history, started, pc, today,
                   rows, inputs, failure, stages, wrote, latest>>

NextCombiner == Combine \/ EmitForecast \/ EmitPlaceholder

SpecCombiner == InitCombiner /\ [][NextCombiner]_vars
(***************************************************************************)
(* The calculators on their own: one call of a calculator, or of the whole *)
(* pipeline of run_forecast_for_metal, on the frames of one metal.         *)
(***************************************************************************)
Ascending(n, first) == [i \in 1..n |-> Some(first + i)]

Descending(n, first) == [i \in 1..n |-> Some(first - i)]

Steady(n, v) == [i \in 1..n |-> Some(v)]

\* up 3, down 1, up 3, ...
Zigzag(n, first) == [i \in 1..n |-> Some(first + i + (IF i % 2 = 0 THEN 2 ELSE 0))]

\* every k-th value missing
Gapped(series, k) == [i \in 1..Len(series) |-> IF i % k = 0 THEN None ELSE series[i]]

\* settle columns: none, 19 / 20 / 25 / 40 rising, 21 rows of which 19 have
\* a value, 29 / 30 zigzag, 40 falling, 30 falling to 0
SettleSamples ==
    { <<>>, Ascending(19, 100), Ascending(20, 100), Ascending(25, 100),
      Gapped(Ascending(21, 100), 10), Zigzag(29, 100), Zigzag(30, 100),
      Ascending(40, 100), Descending(40, 200), Descending(30, 30) }

\* A prices frame whose volume and open interest rise or fall with the row
PriceFrame(settle, rising) ==
    [settle |-> settle,
     volume |-> IF rising THEN Ascending(Len(settle), 1000)
                ELSE Descending(Len(settle), 1000),
     open_interest |-> IF rising THEN Ascending(Len(settle), 500)
                       ELSE Descending(Len(settle), 500),
     oi_change |-> IF rising THEN Steady(Len(settle), 1) ELSE Steady(Len(settle), -1)]

PriceFrames == {PriceFrame(settle, rising) : settle \in SettleSamples, rising \in BOOLEAN}

\* inventory: none, 4 rows, 10 rows drawn down, 10 rows building, 40 rows
\* drawn down
InventoryFrames ==
    { [registered |-> <<>>, eligible |-> <<>>],
      [registered |-> Steady(4, 5000), eligible |-> Steady(4, 9000)],
      [registered |-> Descending(10, 5000), eligible |-> Ascending(10, 9000)],
      [registered |-> Ascending(10, 5000), eligible |-> Descending(10, 9000)],
      [registered |-> Descending(40, 5000), eligible |-> Ascending(40, 9000)] }

\* delivery: none, 4 rows, 5 steady rows, 6 rising rows
DeliveryFrames ==
    { [daily_issued |-> <<>>], [daily_issued |-> Steady(4, 10)],
      [daily_issued |-> Steady(5, 10)], [daily_issued |-> Ascending(6, 10)] }

\* paper/physical ratio: none, 4 rows, 5 rows at 10.00, 5 rows rising from
\* 4.01, 5 rows at -20.00
PpFrames ==
    { [pp_ratio |-> <<>>], [pp_ratio |-> Steady(4, 1000)],
      [pp_ratio |-> Steady(5, 1000)], [pp_ratio |-> Ascending(5, 400)],
      [pp_ratio |-> Steady(5, -2000)] }

OiFrames ==
    { [open_interest |-> <<>>, total_volume |-> <<>>],
      [open_interest |-> Descending(12, 500), total_volume |-> Ascending(12, 1000)] }

Frames(prices, inventory, delivery, oi, pp) ==
    [prices |-> prices, inventory |-> inventory, delivery |-> delivery,
     oi |-> oi, pp |-> pp, contract_size |-> 100]

\* The price frames with nothing else known, and the other frames with 40
\* prices or none
DataSets ==
    {Frames(prices, NoData.inventory, NoData.delivery, NoData.oi, NoData.pp) :
        prices \in PriceFrames}
    \cup {Frames(prices, inventory, delivery, oi, pp) :
            prices \in {PriceFrame(Ascending(40, 100), TRUE), NoData.prices},
            inventory \in InventoryFrames, delivery \in DeliveryFrames,
            oi \in OiFrames, pp \in PpFrames}

\* What the library does on a call: it raises at the fit or at a
\* prediction, or it predicts these ranges
Library(raises, mid5) ==
    [raises |-> raises,
     h5 |-> [low |-> mid5 - 5, mid |-> mid5, high |-> mid5 + 5],
     h20 |-> [low |-> mid5 - 20, mid |-> mid5, high |-> mid5 + 20]]

LibrarySamples ==
    { Library("none", 141), Library("none", 300), Library("fit", 141),
      Library("5d", 141), Library("20d", 141) }

BandSamples == {0, 500, 1000}

QuotientSamples == {-800, 0, 800}

RegimeSamples == {"TRENDING", "VOLATILE"}

\* What a call is given besides the frames
Given(macd_bullish, bb_position, quotient, library, regime, tieUp) ==
    [macd_bullish |-> macd_bullish, bb_position |-> bb_position,
     quotient |-> quotient, library |-> library, regime |-> regime, tieUp |-> tieUp]

Givens ==
    {Given(macd_bullish, bb_position, quotient, library, regime, tieUp) :
        macd_bullish \in BOOLEAN, bb_position \in BandSamples,
        quotient \in QuotientSamples, library \in LibrarySamples,
        regime \in RegimeSamples, tieUp \in BOOLEAN}

\* The inputs a calculator does not read, at one value
Plain == Given(FALSE, 500, 0, Library("none", 141), "TRENDING", FALSE)

InitCalculators == \E frames \in DataSets : Start({0}, 0, NoCall, frames)

Call(of, given, value) ==
    /\ signals = None
    /\ signals' = Some([of |-> of, given |-> given, returned |-> value])
    /\ UNCHANGED <<setup, result, clock, tables, history, started, pc, output, today,
                   rows, inputs, failure, stages, wrote, latest>>

CallTrend ==
    \E g \in Givens :
        /\ g = [Plain EXCEPT !.macd_bullish = g.macd_bullish,
                             !.bb_position = g.bb_position, !.tieUp = g.tieUp]
        /\ Call("trend", g,
                compute_trend_signals(data.prices.settle, g.macd_bullish,
                                      g.bb_position, g.tieUp))

CallPhysical ==
    \E g \in Givens :
        /\ g = [Plain EXCEPT !.quotient = g.quotient, !.tieUp = g.tieUp]
        /\ Call("physical", g,
                compute_physical_signals(data.inventory, data.delivery, data.pp,
                                         data.contract_size, g.quotient, g.tieUp))

CallArima ==
    \E g \in Givens :
        /\ g = [Plain EXCEPT !.library = g.library]
        /\ Call("arima", g, run_arima_forecast(data.prices.settle, g.library))

CallMarket ==
    \E g \in Givens :
        /\ g = [Plain EXCEPT !.tieUp = g.tieUp]
        /\ Call("market", g, compute_market_activity(data.prices, data.oi, g.tieUp))

\* detect_regime: "UNKNOWN" without 30 prices, else what the short and the
\* long volatility of the returns give
detect_regime(settle, regime) ==
    IF Len(settle) = 0 \/ Len(DropNa(settle)) < 30 THEN "UNKNOWN" ELSE regime

\* current_price: the latest settle that is not missing, 0.0 without one
CurrentPrice(settle) ==
    IF Len(DropNa(settle)) > 0 THEN Latest(DropNa(settle)) ELSE 0

\* Steps 1 to 7 of run_forecast_for_metal on the fetched frames
PipelineSignals(frames, given) ==
    [trend |-> compute_trend_signals(frames.prices.settle, given.macd_bullish,
                                     given.bb_position, given.tieUp),
     physical |-> compute_physical_signals(frames.inventory, frames.delivery, frames.pp,
                                           frames.contract_size, given.quotient,
                                           given.tieUp),
     arima |-> run_arima_forecast(frames.prices.settle, given.library),
     market |-> compute_market_activity(frames.prices, frames.oi, given.tieUp),
     price |-> CurrentPrice(frames.prices.settle),
     regime |-> detect_regime(frames.prices.settle, given.regime),
     tieUp |-> given.tieUp]

\* The whole pipeline for one metal: the four calculators, the regime, the
\* combiner and the assembly of the result
CallPipeline ==
    \E g \in Givens :
        /\ g = [Plain EXCEPT !.macd_bullish = g.macd_bullish, !.quotient = g.quotient,
                             !.library = g.library, !.regime = g.regime]
        /\ Call("pipeline", g, run_forecast_for_metal(PipelineSignals(data, g)))

GrangerSamples == {"unavailable", "raises", "significant", "insignificant"}

\* Step 5 of the pipeline
CallCorrelations ==
    \E granger \in GrangerSamples :
        /\ granger \in GrangerSamples
        /\ Call("correlations", [granger |-> granger],
                run_correlation_analysis(data.prices.settle, data.inventory, granger))

\* forecast_history.json as a run may find it
FileSamples ==
    {"absent", "unreadable", <<HistoryEntry(0, MetalOrder[1] :> Unavailable("error"))>>}

\* The local backup of the output of a run over the first metal, on day 1
CallBackup ==
    \E file \in FileSamples :
        /\ file \in FileSamples
        /\ Call("backup", [file |-> file],
                write_accuracy_json_backup(
                    file, 1,
                    MetalOrder[1] :> run_forecast_for_metal(PipelineSignals(data, Plain))))

\* Quotients around the threshold 2 and past the bounds -10 and 10
ZSamples ==
    {None, Some(-12000), Some(-2004), Some(-2000), Some(0), Some(2000), Some(2004),
     Some(2006), Some(9999), Some(12000)}

\* Step 6 of the pipeline
CallAnomalies ==
    \E z \in ZSamples :
        /\ z \in ZSamples
        /\ Call("anomalies", [z |-> z], [anomalies |-> detect_anomalies(data, z)])

NextCalculators ==
    \/ CallAnomalies
    \/ CallTrend
    \/ CallPhysical
    \/ CallArima
    \/ CallMarket
    \/ CallPipeline
    \/ CallCorrelations
    \/ CallBackup

SpecCalculators == InitCalculators /\ [][NextCalculators]_vars

(***************************************************************************)
(* rebase_forecast_to_spot.py: the stored forecast file rewritten at the   *)
(* spot price of each metal.  Prices, forecast levels and moving averages  *)
(* are in cents, macd_histogram in hundredths of a cent, pct_change in     *)
(* hundredths of a percent.                                                *)
(***************************************************************************)
\* round(v * ratio, 2) with ratio = spot / old_price
Rescale(v, spot, old_price) == RoundHalfEven(v * spot, old_price)

ScaledKeys == {"sma5", "sma20", "sma50", "macd_histogram"}

\* The loop over the two horizons as it would be if it rescaled pct_change
\* with the levels
RescaleForecastWithPctChange(fh, spot, old_price) ==
    IF fh = None THEN fh
    ELSE Some([k \in DOMAIN fh[1] |-> Rescale(fh[1][k], spot, old_price)])

RescaleForecast(fh, spot, old_price) ==
    IF fh = None THEN fh
    ELSE Some([fh[1] EXCEPT !.low = Rescale(@, spot, old_price),
                            !.mid = Rescale(@, spot, old_price),
                            !.high = Rescale(@, spot, old_price)])

RescaleIndicators(ti, spot, old_price) ==
    [key \in DOMAIN ti |->
        IF key \in ScaledKeys THEN Rescale(ti[key], spot, old_price) ELSE ti[key]]

\* One iteration of main()'s loop over data["metals"]; spot is what
\* get_spot_price(metal) returned
RebaseMetal(fc, spot) ==
    IF spot = None \/ spot[1] <= 0 THEN fc
    ELSE IF fc.current_price <= 0 THEN [fc EXCEPT !.current_price = spot[1]]
    ELSE LET old_price == fc.current_price
         IN  [fc EXCEPT !.current_price = spot[1],
                        !.forecast_5d = RescaleForecast(@, spot[1], old_price),
                        !.forecast_20d = RescaleForecast(@, spot[1], old_price),
                        !.trend_indicators = RescaleIndicators(@, spot[1], old_price)]

rebase_forecast_to_spot(metals, spots) ==
    [metal \in DOMAIN metals |-> RebaseMetal(metals[metal], spots[metal])]

Quoted(low, mid, high, pct_change) ==
    Some([low |-> low, mid |-> mid, high |-> high, pct_change |-> pct_change])

Stored(fc, price, f5, f20, ti) ==
    [trend_indicators |-> ti] @@
    [fc EXCEPT !.current_price = price, !.forecast_5d = f5, !.forecast_20d = f20]

\* Entries forecast.json may hold for a metal: a full forecast, one with a
\* single horizon and no moving averages, one whose price is zero, and the
\* placeholder of a failed metal
StoredForecasts ==
    {Stored(Forecasts[Rally], 10000, Quoted(9800, 10100, 10400, 100),
            Quoted(9500, 10250, 11000, 250),
            [rsi |-> 612, sma5 |-> 9950, sma20 |-> 9800, sma50 |-> 9733,
             macd_histogram |-> -1234, macd_bullish |-> FALSE]),
     Stored(Forecasts[Slump], 2400, Quoted(2310, 2376, 2442, -100), None,
            [rsi |-> 388, sma5 |-> 2417]),
     Stored(Forecasts[NoPrices], 0, None, None, <<>>),
     Stored(Unavailable("error"), 0, None, None, <<>>)}

SpotSamples == {None, Some(0), Some(2399), Some(12345)}

RebaseCalls ==
    {[metals |-> metals, spots |-> spots] :
        metals \in [Metals -> StoredForecasts], spots \in [Metals -> SpotSamples]}

InitRebase == \E call \in RebaseCalls : Start({0}, 0, call, NoData)

Rebase ==
    /\ result = None
    /\ result' = Some(rebase_forecast_to_spot(args.metals, args.spots))
    /\ UNCHANGED <<setup, signals, clock, tables, history, started, pc, output, today,
                   rows, inputs, failure, stages, wrote, latest>>

SpecRebase == InitRebase /\ [][Rebase]_vars

(***************************************************************************)
(* Properties                                                              *)
(***************************************************************************)
Active == {r \in Runs : pc[r] # "idle"}

\* C1: forecast_snapshots holds at most one row per (metal, forecast_date),
\* and the rows are exactly the rows written by the run that last committed
\* its snapshots for that key, with every column of that run's result.
C1_OneSnapshotPerKeyLatestRun ==
    /\ \A s1 \in snapshots : \A s2 \in snapshots :
          SnapKey(s1) = SnapKey(s2) => s1 = s2
    /\ snapshots = latest

\* C1 witness: a second run on a date has replaced what the first run of
\* that date stored (the local history still shows the first run's call)
C1_Witness ==
    \E s \in snapshots : \E i \in 1..Len(history) :
        /\ history[i].date = s.forecast_date
        /\ s.metal \in DOMAIN history[i].calls
        /\ history[i].calls[s.metal].direction # s.direction
        /\ history[i].calls[s.metal].price_at_forecast # s.price_at_forecast

C3_EvaluationIdempotent ==
    [][/\ \A a \in accuracy : a \in accuracy'
       /\ \A a \in accuracy' : \A b \in accuracy' : AccKey(a) = AccKey(b) => a = b]_vars

\* C3 witness: a run is about to insert a record for a key that another,
\* overlapping run has committed since this run's SELECT, with another price
C3_Witness ==
    \E r \in Runs : \E a \in accuracy : \E i \in 1..Len(rows[r]) :
        /\ pc[r] = "eval"
        /\ rows[r][i].metal = a.metal
        /\ rows[r][i].forecast_date = a.forecast_date
        /\ a.metal \in DOMAIN current_prices(output[r])
        /\ current_prices(output[r])[a.metal] # a.price_at_eval

EligibleForEvaluation(s) ==
    /\ s.direction # "NEUTRAL"
    /\ s.forecast_date <= clock - 5

HasAccuracyRecord(s) ==
    \E a \in accuracy :
        /\ a.metal = s.metal
        /\ a.forecast_date = s.forecast_date
        /\ a.eval_horizon_days = 5

\* C4 as stated: when an evaluation pass has ended, every non-NEUTRAL
\* snapshot at least 5 days old has an accuracy record.
C4_Original ==
    \A r \in Runs : pc[r] = "select_track" =>
        \A s \in snapshots : EligibleForEvaluation(s) => HasAccuracyRecord(s)

\* C4 amended: when an evaluation pass has ended, every non-NEUTRAL
\* snapshot at least 5 days old whose price_at_forecast is positive and for
\* whose metal the run has a positive current price has an accuracy record.
C4_EvaluatedWhenPriced ==
    \A r \in Runs : pc[r] = "select_track" =>
        \A s \in snapshots :
            ( /\ EligibleForEvaluation(s)
              /\ s.price_at_forecast > 0
              /\ s.metal \in DOMAIN output[r]
              /\ output[r][s.metal].current_price > 0 )
            => HasAccuracyRecord(s)

\* C4 witness: the pass that just ended created the record of such a snapshot
C4_Witness ==
    \E r \in Runs : \E s \in snapshots :
        /\ pc[r] = "select_track"
        /\ EligibleForEvaluation(s)
        /\ \E a \in wrote[r] : a.metal = s.metal /\ a.forecast_date = s.forecast_date

\* C5: in every accuracy record, correct is true exactly when the forecast
\* was BULLISH and the price at evaluation is above the price at forecast,
\* or BEARISH and below it.
C5_CorrectIffPriceMovedAsForecast ==
    \A a \in accuracy :
        a.correct <=>
            \/ (a.direction = "BULLISH" /\ a.price_at_eval > a.price_at_forecast)
            \/ (a.direction = "BEARISH" /\ a.price_at_eval < a.price_at_forecast)

\* C5 witness: a record with an unchanged price, recorded as incorrect
C5_Witness ==
    \E a \in accuracy : a.price_at_eval = a.price_at_forecast /\ ~a.correct

\* C6: once the batch loop has run, output holds exactly one result for
\* every configured metal; for a metal whose pipeline raised it is the
\* placeholder (NEUTRAL, confidence 0, the error message kept), and for
\* every other metal it is what run_forecast_for_metal returns on that
\* metal's own data (the table Forecasts), whichever other metals raised.
C6_FailureIsolation ==
    \A r \in Active :
        /\ DOMAIN output[r] = Metals
        /\ \A m \in Metals :
              IF inputs[r][m].raises
              THEN /\ output[r][m].direction = "NEUTRAL"
                   /\ output[r][m].confidence = 0
                   /\ output[r][m].error # None
              ELSE output[r][m] = Forecasts[inputs[r][m].data[1]]

\* C6 witness: a run in which the second metal raised and the first did not
C6_Witness ==
    \E r \in Active :
        /\ inputs[r][MetalOrder[2]].raises
        /\ ~inputs[r][MetalOrder[1]].raises
        /\ output[r][MetalOrder[1]].direction # "NEUTRAL"

\* C7: when the snapshot write of one metal fails, the snapshot rows of the
\* other metals of that run are committed: once the run has left the
\* database code, forecast_snapshots has a row for each of them on the
\* run's date.
C7_SnapshotTransactionPerMetal ==
    \A r \in Runs :
        ( /\ pc[r] = "backup"
          /\ failure[r].stage = "snapshot"
          /\ failure[r].at <= Len(Items(output[r])) )
        => \A m \in DOMAIN output[r] :
              m # Items(output[r])[failure[r].at]
              => \E s \in snapshots : s.metal = m /\ s.forecast_date = today[r]

\* C8: a run whose snapshot upsert failed has still executed its
\* accuracy-evaluation and price-tracking stages when it leaves the
\* database code.
C8_StagesContinueAfterSnapshotFailure ==
    \A r \in Runs :
        (pc[r] = "backup" /\ failure[r].stage = "snapshot")
        => {"evaluation", "tracking"} \subseteq stages[r]

\* C9: when a run fails during price tracking, none of the accuracy records
\* its evaluation pass wrote is in forecast_accuracy.
C9_EvaluationAndTrackingAtomic ==
    \A r \in Runs :
        (pc[r] = "backup" /\ failure[r].stage = "tracking")
        => wrote[r] \cap accuracy = {}

\* 0.30*trend + 0.35*physical + 0.20*arima + 0.15*market_activity in
\* thousandths, a missing score taken as 50, clamped to [0, 100]
ClampedWeightedSum(call) ==
    LET t == IF call.trend.score = None THEN 500 ELSE call.trend.score[1]
        p == IF call.physical.score = None THEN 500 ELSE call.physical.score[1]
        a == IF call.arima.score = None THEN 500 ELSE call.arima.score[1]
        m == IF call.market.score = None THEN 500 ELSE call.market.score[1]
        sum == 30 * t + 35 * p + 20 * a + 15 * m
    IN  IF sum < 0 THEN 0 ELSE IF sum > 100000 THEN 100000 ELSE sum

\* C10: the composite_score the combiner returns is a multiple of 0.1 in
\* [0, 100] nearest to the clamped weighted sum
\* 0.30*trend + 0.35*physical + 0.20*arima + 0.15*market_activity, in which
\* a missing score counts as 50.
C10_CompositeIsClampedWeightedSum ==
    result # None =>
        /\ result[1].composite_score \in 0..1000
        /\ 100 * result[1].composite_score - ClampedWeightedSum(args) \in -50..50

\* C10 witness: a call with a missing score, the others above 100 or below
\* 0, has returned
C10_Witness ==
    /\ result # None
    /\ \E c \in {"trend", "physical", "arima", "market"} : args[c].score = None
    /\ \E c \in {"trend", "physical", "arima", "market"} :
          args[c].score # None /\ args[c].score[1] \notin 0..1000
    /\ result[1].composite_score \in 1..999

\* C11: in every emitted result, the placeholder of a failed metal
\* included, direction is BULLISH exactly when composite_score >= 60,
\* BEARISH exactly when composite_score <= 40, and NEUTRAL otherwise.
C11_DirectionFromCompositeAlone ==
    \A r \in Runs : \A m \in DOMAIN output[r] :
        LET o == output[r][m]
        IN  /\ o.direction \in {"BULLISH", "BEARISH", "NEUTRAL"}
            /\ o.direction = "BULLISH" <=> o.composite_score >= 600
            /\ o.direction = "BEARISH" <=> o.composite_score <= 400
            /\ o.direction = "NEUTRAL" <=> o.composite_score \in 401..599

\* C11 witness: a result with composite_score exactly 60 has been emitted
C11_Witness ==
    \E r \in Runs : \E m \in DOMAIN output[r] :
        /\ output[r][m].composite_score = 600
        /\ output[r][m].direction = "BULLISH"
        /\ output[r][m].error = None

\* C12: the confidence the combiner returns is an integer between 10 and
\* 95, whatever the four scores.
C12_ConfidenceWithin10And95 ==
    result # None => result[1].confidence \in 10..95

\* C12 witness: a call whose scores lie outside [0, 100] on both sides and
\* disagree has returned the lowest confidence
C12_Witness ==
    /\ result # None
    /\ result[1].confidence = 10
    /\ \E c \in {"trend", "physical", "arima", "market"} : args[c].score = Some(1200)
    /\ \E c \in {"trend", "physical", "arima", "market"} : args[c].score = Some(-200)

\* C13: the score a signal calculator returns lies in [0, 100], whichever
\* of the four calculators it is and whatever the frames hold.
C13_CalculatorScoresWithin0And100 ==
    signals # None /\ signals[1].of \in {"trend", "physical", "arima", "market"} =>
        signals[1].returned.score[1] \in 0..1000

\* The number of prices of the fetched frame that are not missing
ValidPrices == Cardinality({i \in DOMAIN data.prices.settle : data.prices.settle[i] # None})

\* C14: with fewer than 20 non-missing prices the trend calculator returns
\* score exactly 50 and no indicators, and with fewer than 30 the ARIMA
\* forecaster returns score exactly 50 and no forecasts.
C14_NeutralBelowMinimumObservations ==
    signals # None =>
        LET call == signals[1]
        IN  /\ call.of = "trend" /\ ValidPrices < 20 =>
                  /\ call.returned.score = Some(500)
                  /\ call.returned.indicators = None
            /\ call.of = "arima" /\ ValidPrices < 30 =>
                  /\ call.returned.score = Some(500)
                  /\ call.returned.fc5 = None
                  /\ call.returned.fc20 = None

\* The forecaster was called on 29 prices, one short of its minimum, with a
\* library that would have predicted a rise
C14_Witness ==
    /\ signals # None
    /\ signals[1].of = "arima"
    /\ ValidPrices = 29
    /\ signals[1].given.library = Library("none", 300)
    /\ signals[1].returned.score = Some(500)

\* C15: when the fit or a prediction raises, at whichever horizon, the
\* forecaster returns score 50, the failure rationale and no forecasts.
C15_FailedFitLeavesNoForecasts ==
    signals # None =>
        LET call == signals[1]
        IN  call.of = "arima" /\ ValidPrices >= 30 /\ call.given.library.raises # "none" =>
                /\ call.returned.score = Some(500)
                /\ call.returned.details = "ARIMA fitting failed"
                /\ call.returned.fc5 = None
                /\ call.returned.fc20 = None

\* The pipeline was run on frames without inventory rows and with 40 prices
NoInventoryFortyPrices ==
    /\ signals # None
    /\ signals[1].of = "pipeline"
    /\ Rows(data.inventory, "registered") = 0
    /\ Len(data.prices.settle) = 40
    /\ ValidPrices = 40

\* The trend, ARIMA and market scores the calculators give on the frames
ComputedScore(of) ==
    LET g == signals[1].given
    IN  CASE of = "trend" ->
                 compute_trend_signals(data.prices.settle, g.macd_bullish,
                                       g.bb_position, g.tieUp).score[1]
          [] of = "arima" -> run_arima_forecast(data.prices.settle, g.library).score[1]
          [] of = "market" -> compute_market_activity(data.prices, data.oi, g.tieUp).score[1]

StrictlyAscending ==
    LET s == DropNa(data.prices.settle)
    IN  \A i \in 1..(Len(s) - 1) : s[i] < s[i + 1]

\* C17: on at least 20 strictly ascending prices the RSI indicator of the
\* trend calculator reads 100.
C17_RsiReads100OnAscendingPrices ==
    signals # None /\ signals[1].of = "trend" /\ ValidPrices >= 20 /\ StrictlyAscending
        => signals[1].returned.indicators[1].rsi = 1000

\* Run r has completed its price-tracking pass and not yet left
TrackingPassEnded(r) ==
    /\ pc[r] = "backup"
    /\ "tracking" \in stages[r]
    /\ failure[r] = NoFailure

\* There is a tracking row of snapshot s for the day of run r
HasTrackingRow(s, r) ==
    \E t \in tracking : TrackKey(t) = <<s.metal, s.forecast_date, today[r]>>

HistoryDates == {history[i].date : i \in DOMAIN history}

CaughtError ==
    /\ signals # None
    /\ \/ /\ signals[1].of = "arima"
          /\ ValidPrices >= 30
          /\ \/ signals[1].given.library.raises # "none"
             \/ CurrentPrice(data.prices.settle) = 0
       \/ /\ signals[1].of \in {"correlations", "backup"}
          /\ signals[1].returned.caught

\* The call left a trace of a failure: a failure rationale in what it
\* returned, or a line in the log
LeftTrace ==
    IF signals[1].of = "arima"
    THEN signals[1].returned.details = "ARIMA fitting failed"
    ELSE signals[1].returned.printed # <<>>

\* C20: every error the pipeline catches (model fit, causality test,
\* unreadable local history file) leaves a trace, a rationale string in the
\* result or a log entry.
C20_CaughtErrorsLeaveTrace == CaughtError => LeftTrace

\* The four signals of the call, in the order trend, physical, arima, market
CallSignals == <<args.trend, args.physical, args.arima, args.market>>

\* |score - 50| of the i-th signal of the call, a missing score taken as 50
CallDeviation(i) ==
    LET score == IF CallSignals[i].score = None THEN 500 ELSE CallSignals[i].score[1]
    IN  IF score >= 500 THEN score - 500 ELSE 500 - score

\* The i-th signal comes before the j-th in the order of the key drivers:
\* larger deviation first, the fixed order of the categories on a tie
DrivesBefore(i, j) ==
    \/ CallDeviation(i) > CallDeviation(j)
    \/ CallDeviation(i) = CallDeviation(j) /\ i < j

\* C21: key_drivers lists exactly the three categories with the largest
\* |score - 50|, in non-increasing order of that deviation, ties in the
\* fixed order trend, physical, arima, market, each labelled bullish when
\* its score is above 50, bearish when below, neutral when equal, together
\* with its rationale.
C21_KeyDriversTopThreeByDeviation ==
    result # None =>
        LET kd == result[1].key_drivers
            at(p) == CHOOSE i \in 1..4 : Categories[i] = kd[p].name
        IN  /\ DOMAIN kd = 1..3
            /\ \A p \in 1..3 : \E i \in 1..4 : Categories[i] = kd[p].name
            /\ DrivesBefore(at(1), at(2)) /\ DrivesBefore(at(2), at(3))
            /\ \A i \in 1..4 \ {at(1), at(2), at(3)} : DrivesBefore(at(3), i)
            /\ \A p \in 1..3 :
                  LET sig == CallSignals[at(p)]
                  IN  /\ kd[p].bull_bear = "bullish" <=>
                            sig.score # None /\ sig.score[1] > 500
                      /\ kd[p].bull_bear = "bearish" <=>
                            sig.score # None /\ sig.score[1] < 500
                      /\ kd[p].bull_bear = "neutral" <=>
                            sig.score = None \/ sig.score[1] = 500
                      /\ kd[p].detail =
                            IF "details" \in DOMAIN sig THEN sig.details ELSE ""

\* Trend at 40 and market activity at 60 tie for the largest deviation and
\* physical stress and the missing ARIMA score tie at none: the drivers are
\* trend, market activity and physical stress
C21_Witness ==
    /\ result # None
    /\ args.trend.score = Some(400) /\ args.market.score = Some(600)
    /\ args.physical.score = Some(500) /\ args.arima.score = None
    /\ result[1].key_drivers[1].name = "trend_momentum"
    /\ result[1].key_drivers[2].name = "market_activity"
    /\ result[1].key_drivers[3].name = "physical_stress"
    /\ result[1].key_drivers[3].bull_bear = "neutral"

\* The observations a metric of the detector has in the fetched frames
Observations(metric) ==
    CASE metric = "registered_inventory_change" ->
             Cardinality({i \in DOMAIN data.inventory.registered :
                             data.inventory.registered[i] # None}) - 1
      [] metric = "daily_deliveries" ->
             Cardinality({i \in DOMAIN data.delivery.daily_issued :
                             data.delivery.daily_issued[i] # None})
      [] metric = "trading_volume" ->
             Cardinality({i \in DOMAIN data.prices.volume : data.prices.volume[i] # None})
      [] metric = "oi_change" ->
             Cardinality({i \in DOMAIN data.prices.oi_change :
                             data.prices.oi_change[i] # None})

\* The inventory-drawdown z-score of a physical call lies in [-5, 5]
InventoryZWithin5 ==
    signals # None /\ signals[1].of = "physical" /\ signals[1].returned.z_score # None
        => signals[1].returned.z_score[1] \in -500..500

\* C22 as stated: every anomaly reported comes from a metric with at least
\* 20 observations and has a z-score with 2 < |z| <= 10, and the
\* inventory-drawdown z-score lies in [-5, 5].
C22_Original ==
    /\ InventoryZWithin5
    /\ signals # None /\ signals[1].of = "anomalies" =>
           \A i \in DOMAIN signals[1].returned.anomalies :
               LET a == signals[1].returned.anomalies[i]
               IN  /\ Observations(a.metric) >= 20
                   /\ (a.z_score > 200 /\ a.z_score <= 1000)
                      \/ (a.z_score < -200 /\ a.z_score >= -1000)

\* C22 amended: every anomaly reported comes from a metric with at least 20
\* observations whose z exceeds 2 in absolute value before it is rounded,
\* and the z-score reported, rounded to two decimals, has 2 <= |z| <= 10;
\* the inventory-drawdown z-score lies in [-5, 5].
C22_ReportedZScoresClamped ==
    /\ InventoryZWithin5
    /\ signals # None /\ signals[1].of = "anomalies" =>
           \A i \in DOMAIN signals[1].returned.anomalies :
               LET a == signals[1].returned.anomalies[i]
                   z == signals[1].given.z[1]
               IN  /\ Observations(a.metric) >= 20
                   /\ z > 2000 \/ z < -2000
                   /\ (a.z_score >= 200 /\ a.z_score <= 1000)
                      \/ (a.z_score <= -200 /\ a.z_score >= -1000)
                   /\ a.z_score > 0 <=> z > 0

\* A quotient of 12 was reported as the anomaly z-score 10.0
C22_Witness ==
    /\ signals # None
    /\ signals[1].of = "anomalies"
    /\ signals[1].given.z = Some(12000)
    /\ \E i \in DOMAIN signals[1].returned.anomalies :
          signals[1].returned.anomalies[i].z_score = 1000

\* The open-interest series the market calculator reads from the fetched
\* frames: the column of prices, or of the open-interest frame without prices
OpenInterestRead ==
    IF Len(data.prices.open_interest) > 0 THEN DropNa(data.prices.open_interest)
    ELSE DropNa(data.oi.open_interest)

\* The percent change, in hundredths, from the observation `lag` periods
\* before the latest one to the latest one
OpenInterestChange(lag) ==
    LET s == OpenInterestRead
        before == s[Len(s) - lag]
    IN  RoundHalfEven(10000 * (s[Len(s)] - before), before)

\* C23: with at least 10 open-interest observations the open-interest
\* sub-score of the market calculator is clamp(50 + 2p, 0, 100), p the
\* percent change from the observation 10 periods before the latest one
\* (stated where that observation exists and is positive; p is the
\* oi_10d_change_pct the call reports).
C23_OiScoreFromTenPeriodChange ==
    signals # None /\ signals[1].of = "market" /\ Len(OpenInterestRead) >= 11
        /\ OpenInterestRead[Len(OpenInterestRead) - 10] > 0
        => /\ signals[1].returned.oi_10d_change_pct = Some(OpenInterestChange(10))
           /\ MarketScores(data.prices, data.oi)[1] =
                  Clamp100(50000 + 20 * OpenInterestChange(10))

\* v rescaled by spot / old_price, to the nearest unit
NearestRescaled(new, v, spot, old_price) ==
    LET off == new * old_price - v * spot
    IN  2 * off <= old_price /\ -2 * off <= old_price

PriceKeys == {"current_price", "forecast_5d", "forecast_20d", "trend_indicators"}

Levels == {"low", "mid", "high"}

\* The parts of a stored forecast that are not prices are the same in old and new
SameBesidesPrices(old, new) ==
    /\ DOMAIN new = DOMAIN old
    /\ \A f \in DOMAIN old \ PriceKeys : new[f] = old[f]
    /\ \A h \in {"forecast_5d", "forecast_20d"} :
          /\ (old[h] = None) = (new[h] = None)
          /\ old[h] # None
                => /\ DOMAIN new[h][1] = DOMAIN old[h][1]
                   /\ \A k \in DOMAIN old[h][1] \ Levels : new[h][1][k] = old[h][1][k]
    /\ DOMAIN new.trend_indicators = DOMAIN old.trend_indicators
    /\ \A k \in DOMAIN old.trend_indicators \ ScaledKeys :
          new.trend_indicators[k] = old.trend_indicators[k]

\* The prices of new are those of old times spot / old's current price
RescaledPrices(old, new, spot) ==
    /\ new.current_price = spot
    /\ \A h \in {"forecast_5d", "forecast_20d"} :
          old[h] # None
             => \A k \in Levels :
                   NearestRescaled(new[h][1][k], old[h][1][k], spot, old.current_price)
    /\ \A k \in DOMAIN old.trend_indicators \cap ScaledKeys :
          NearestRescaled(new.trend_indicators[k], old.trend_indicators[k], spot,
                          old.current_price)

\* C24: rebasing the stored forecasts leaves, for every metal, direction,
\* confidence, composite_score, signals, squeeze_probability and every
\* pct_change as they were; a metal whose spot price could not be fetched is
\* left as it was; a metal with a spot price and a positive stored price has
\* its current_price set to the spot and its forecast low, mid, high, its
\* sma5, sma20, sma50 and its macd_histogram multiplied by spot / old price.
C24_RebaseRescalesOnlyPrices ==
    result # None
        => \A metal \in DOMAIN args.metals :
              LET old == args.metals[metal]
                  new == result[1][metal]
                  spot == args.spots[metal]
              IN  /\ SameBesidesPrices(old, new)
                  /\ (spot = None \/ spot[1] <= 0) => new = old
                  /\ (spot # None /\ spot[1] > 0 /\ old.current_price > 0)
                        => RescaledPrices(old, new, spot[1])

\* a rebase with one metal fully rescaled to a different price and the
\* other without a spot price
C24_Witness ==
    /\ result # None
    /\ args.spots["Gold"] = Some(12345)
    /\ args.metals["Gold"].forecast_20d # None
    /\ "macd_histogram" \in DOMAIN args.metals["Gold"].trend_indicators
    /\ result[1]["Gold"].forecast_5d[1].low # args.metals["Gold"].forecast_5d[1].low
    /\ args.spots["Silver"] = None
    /\ args.metals["Silver"].current_price > 0

\* The rows run r is about to loop over are rows of the snapshots as they
\* stand, and no other run is in progress
RowsCurrent(r) ==
    /\ Active = {r}
    /\ \A i \in DOMAIN rows[r] : \E s \in snapshots : rows[r][i] = Fetched(s)

\* C25: after a run's price-tracking pass, with no other run in progress,
\* every tracking row (metal, forecast_date, run date) the pass has written
\* agrees with the current snapshot of (metal, forecast_date): its
\* price_at_forecast and direction_at_forecast are the snapshot's price and
\* direction, and its price_change is live_price - price_at_forecast.
C25_TrackingAgreesWithSnapshot ==
    [][\A r \in Runs :
          (TrackingStage(r) /\ RowsCurrent(r))
          => \A i \in DOMAIN rows[r] : \A t \in tracking' :
                LET u == rows[r][i]
                IN  ( /\ TrackKey(t) = <<u.metal, u.forecast_date, today[r]>>
                      /\ u.price_at_forecast > 0
                      /\ u.metal \in DOMAIN current_prices(output[r]) )
                    => /\ t.price_at_forecast = u.price_at_forecast
                       /\ t.direction_at_forecast = u.direction
                       /\ t.price_change = t.live_price - t.price_at_forecast]_vars

\* The snapshot an accuracy record references
Referenced(a) == {s \in snapshots : SnapKey(s) = <<a.metal, a.forecast_date>>}

\* Every accuracy record has the direction and price_at_forecast of the
\* snapshot it references
AccuracyMatchesSnapshot ==
    \A a \in accuracy :
        \E s \in Referenced(a) :
            /\ s.direction = a.direction
            /\ s.price_at_forecast = a.price_at_forecast

\* A step adds or removes only snapshot rows of the date of a run that is
\* at its snapshot stage
SnapshotsChangeOnlyForRunDate ==
    \A s \in (snapshots' \ snapshots) \cup (snapshots \ snapshots') :
        \E r \in Runs : pc[r] = "snap" /\ s.forecast_date = today[r] /\ today[r] = clock

\* C26: a run on date D writes only snapshot rows with forecast_date = D and
\* changes no snapshot of another date, and every accuracy record's
\* direction and price_at_forecast are at all times those of the snapshot
\* it references.
C26_EvaluatedSnapshotsNeverRewritten ==
    [][SnapshotsChangeOnlyForRunDate]_vars /\ []AccuracyMatchesSnapshot

\* an accuracy record exists and a later run has just rewritten the
\* snapshot of its metal for the run date with another direction
C26_Witness ==
    \E r \in Runs : \E a \in accuracy : \E s \in snapshots :
        /\ pc[r] = "select_eval" /\ Active = {r}
        /\ a \notin wrote[r]
        /\ s.metal = a.metal
        /\ s.forecast_date = today[r]
        /\ s.forecast_date > a.forecast_date
        /\ s.direction # a.direction

\* The snapshot of a metal whose pipeline raised
PlaceholderRow(s) ==
    s.direction = "NEUTRAL" /\ s.confidence = 0 /\ s.price_at_forecast = 0

\* The snapshot stage of a run stores the placeholder for every metal that
\* failed in that run, whatever was stored before
FailedMetalStoredAsPlaceholder ==
    \A r \in Runs :
        SnapshotStage(r)
        => \A m \in Metals :
              inputs[r][m].raises
              => /\ \E s \in snapshots' : SnapKey(s) = <<m, today[r]>>
                 /\ \A s \in snapshots' : SnapKey(s) = <<m, today[r]>> => PlaceholderRow(s)

\* A NEUTRAL snapshot of a past date is left as it is
PastNeutralKept ==
    \A s \in snapshots :
        (s.direction = "NEUTRAL" /\ s.forecast_date < clock) => s \in snapshots'

\* C27: the snapshot stage of a run in which a metal failed leaves the
\* placeholder (NEUTRAL, confidence 0, price 0) as the snapshot of (metal,
\* run date) whatever an earlier run of that date had stored; a NEUTRAL
\* snapshot never has an accuracy record, and once its date has passed it is
\* never rewritten.
C27_LatestRunWinsAndPlaceholderNeverEvaluated ==
    /\ [][FailedMetalStoredAsPlaceholder /\ PastNeutralKept]_vars
    /\ [](\A s \in snapshots : s.direction = "NEUTRAL" => ~HasAccuracyRecord(s))

\* the first run of day 0 forecast Gold with a direction (the local history
\* still says so), a second run of day 0 failed for Gold and left the
\* placeholder, and a run at least 5 days later has ended its evaluation
\* pass without a record for it
C27_Witness ==
    \E r \in Runs : \E s \in snapshots :
        /\ SnapKey(s) = <<"Gold", 0>> /\ PlaceholderRow(s)
        /\ \E i \in DOMAIN history :
              /\ history[i].date = 0
              /\ history[i].calls["Gold"].direction # "NEUTRAL"
        /\ today[r] >= eval_horizon
        /\ pc[r] = "select_track" /\ failure[r] = NoFailure
        /\ current_prices(output[r])["Gold"] > 0
        /\ ~HasAccuracyRecord(s)

\* What the local history records of a forecast, read off a snapshot row
CallOf(s) ==
    [direction |-> s.direction,
     confidence |-> s.confidence,
     composite_score |-> s.composite_score,
     price_at_forecast |-> s.price_at_forecast]

\* The local history and the snapshots differ on a metal of date day
StoresDisagree(forecasts, snaps, day) ==
    \E i \in DOMAIN forecasts : \E s \in snaps :
        /\ forecasts[i].date = day
        /\ s.forecast_date = day
        /\ s.metal \in DOMAIN forecasts[i].calls
        /\ forecasts[i].calls[s.metal] # CallOf(s)

\* The snapshots hold what run r computed
SnapshotsHoldRun(r) ==
    \A m \in DOMAIN output[r] : SnapshotRow(m, today[r], output[r][m]) \in snapshots

\* The local history has an entry of the day that differs from what run r
\* computed
RerunWithDifferentResult(r) ==
    \E i \in DOMAIN history :
        /\ history[i].date = clock
        /\ history[i].calls # HistoryEntry(clock, output[r]).calls

\* C28: a run's backup call on a date that already has a local-history
\* entry leaves that entry as it was and adds none; a run's snapshot stage
\* stores that run's values for the date whatever was stored before; so
\* when the backup call of a run whose values are in the snapshots finds an
\* entry of the date with a different result, the local history and the
\* snapshots disagree for that date afterwards.
C28_HistoryFirstWinsDatabaseLastWins ==
    [][\A r \in Runs :
          /\ (WriteBackup(r) /\ clock \in HistoryDates)
                => /\ \A i \in DOMAIN history :
                         history[i].date = clock
                            => \E j \in DOMAIN history' : history'[j] = history[i]
                   /\ Len(history') <= Len(history)
          /\ SnapshotStage(r)
                => \A m \in DOMAIN output[r] :
                      SnapshotRow(m, today[r], output[r][m]) \in snapshots'
          /\ (WriteBackup(r) /\ today[r] = clock /\ SnapshotsHoldRun(r)
                             /\ RerunWithDifferentResult(r))
                => StoresDisagree(history', snapshots', clock)]_vars

\* both runs of a day have ended, the first forecast Gold with one direction
\* (its tracking row and the local history say so) and the second with
\* another, which the snapshot holds
C28_Witness ==
    /\ Active = {} /\ started = 2
    /\ \E i \in DOMAIN history : \E s \in snapshots : \E t \in tracking :
          /\ history[i].date = s.forecast_date
          /\ s.metal = "Gold"
          /\ TrackKey(t) = <<"Gold", s.forecast_date, s.forecast_date>>
          /\ t.direction_at_forecast = history[i].calls["Gold"].direction
          /\ s.direction # history[i].calls["Gold"].direction
          /\ s.direction # "NEUTRAL"

\* Run r has come back from main() with a positive current price for metal m,
\* at least 5 days after day d, and the snapshot of (m, d) is non-NEUTRAL
\* with a positive price_at_forecast
PricedRunAfterHorizon(r, m, d) ==
    /\ pc[r] = "snap"
    /\ d <= today[r] - eval_horizon
    /\ m \in DOMAIN current_prices(output[r])
    /\ \E s \in snapshots :
          /\ SnapKey(s) = <<m, d>>
          /\ s.direction # "NEUTRAL"
          /\ s.price_at_forecast > 0

Evaluated(m, d) ==
    \E a \in accuracy : AccKey(a) = <<m, d, eval_horizon>>

\* A non-NEUTRAL snapshot stored with a price_at_forecast of zero or less
Unpriced(s) == s.direction # "NEUTRAL" /\ s.price_at_forecast <= 0

OwedEvaluated(r) ==
    \A s \in snapshots :
        ( /\ s.direction # "NEUTRAL"
          /\ s.price_at_forecast > 0
          /\ s.forecast_date <= today[r] - eval_horizon
          /\ s.metal \in DOMAIN current_prices(output[r]) )
        => HasAccuracyRecord(s)

NeutralOrMissing(sig) == sig.score = None \/ sig.score = Some(500)

AllSignalsNeutral ==
    /\ NeutralOrMissing(args.trend)
    /\ NeutralOrMissing(args.physical)
    /\ NeutralOrMissing(args.arima)
    /\ NeutralOrMissing(args.market)

\* C30: when all four signals are at 50 (or missing, which counts as 50)
\* and the physical signals carry no paper/physical squeeze sub-signal, the
\* combiner returns composite_score 50.0, direction NEUTRAL, confidence 40
\* and squeeze_probability 30.
C30_AllNeutralGivesConfidence40 ==
    (result # None /\ AllSignalsNeutral /\ args.physical.squeeze = None)
        => /\ result[1].composite_score = 500
           /\ result[1].direction = "NEUTRAL"
           /\ result[1].confidence = 40
           /\ result[1].squeeze_probability = 30

\* a call with two scores of 50 and two missing, and no squeeze sub-signal
C30_Witness ==
    /\ result # None
    /\ args.trend.score = Some(500) /\ args.physical.score = None
    /\ args.arima.score = Some(500) /\ args.market.score = None
    /\ args.physical.squeeze = None
    /\ result[1].confidence = 40

=============================================================================
